---------------------------- MODULE Spec2Model ----------------------------
(***************************************************************************)
(* PolyTrade: the market discovery and filtering pipeline.                 *)
(*                                                                         *)
(*   run_analysis             services/analyzer/analysis.py                *)
(*   fetch_markets_page       services/live_sports_analyzer/               *)
(*   fetch_all_sports_markets     live_sports_analysis.py                  *)
(*   filter_live_markets                                                   *)
(*   run_live_sports_analysis                                              *)
(*   buy_market_outcomes                                                   *)
(*   the urgent filter        LocalTests/test_urgent_filter.py             *)
(*   compute_edge_bps         services/analyzer/analysis.py                *)
(*   get_balance              shared/polymarket_client.py                  *)
(*   run_monitor              services/monitor/monitor.py                  *)
(*   get_current              shared/balances.py                           *)
(*   the callback handlers    services/bot_a/app.py                        *)
(*   run_analysis (threshold) analysis.py                                  *)
(*                                                                         *)
(* Prices are integers in cents (0.20 is 20), liquidity is in whole USD,   *)
(* instants and durations are in minutes.  Each function of the pipeline   *)
(* has its own specification (SpecAnalysis, SpecFetch, SpecFilter,         *)
(* SpecLive, SpecUrgent, SpecBuy); the variables of the other functions    *)
(* stay idle in it.  SpecScorer is a run of run_analysis, of the live      *)
(* scorer or of buy_market_outcomes.  FairAnalysis and FairFetch add weak  *)
(* fairness of the steps, for termination.  SpecEdge, SpecBalance and      *)
(* SpecMonitor are runs of compute_edge_bps (or run_analysis), get_balance *)
(* and run_monitor; SpecTrading is the auto-trading loop that calls        *)
(* buy_market_outcomes market by market.  SpecMonitorRuns is run_monitor   *)
(* pass after pass, SpecCurrent calls of get_current one after the other,  *)
(* SpecBot the updates the bot handles, SpecVariant a run of the analyzer  *)
(* that applies the edge threshold.                                        *)
(*                                                                         *)
(* PolymarketClient is the edge of the model.  Its callers construct it    *)
(* with require_auth=... and call get_price; shared/polymarket_client.py   *)
(* has neither that parameter nor that method.  The model takes the        *)
(* construction to succeed and get_price to answer as its caller reads     *)
(* it; list_markets' records and the answers for a token are inputs.       *)
(***************************************************************************)
EXTENDS Integers, Sequences, FiniteSets, TLC

VARIABLES
    \* ---- run_analysis
    a_pc,           \* "start" | "loop" | "done" | "raised": position in run_analysis
    first_market,   \* markets[0] as inspected before the loop: its question
    a_cfg,          \* the call's arguments and the shape of client.list_markets()
    idx,            \* enumerate(markets, 1): index of the last market taken
    market,         \* the loop variable: the market taken last
    a_result,       \* what the last iteration did with it
    suggestions,    \* the list run_analysis returns
    quoteCalls,     \* client.get_quotes calls issued so far
    addDocCalls,    \* add_doc("suggestions", ...) calls issued so far
    acceptableSeen, \* history: markets taken so far that meet every criterion
    \* ---- filter_live_markets
    f_pc,           \* "loop" | "done": position in filter_live_markets
    f_cfg,          \* now_dt, lookback_hours and the length of markets
    f_idx,          \* markets taken so far
    f_market,       \* the loop variable: the market taken last
    f_result,       \* what the loop body did with it
    live_markets,   \* the list filter_live_markets builds, sorts and returns
    \* ---- fetch_all_sports_markets
    p_pc,           \* "tags" | "first" | "first_wait" | "pool" | "submit" | "collect" | "done" | "raised"
    max_workers,    \* the argument of fetch_all_sports_markets
    sports_tag_ids, \* the tag ids read from /sports
    first_page,     \* fetch_markets_page(0, ...)
    next_page,      \* the next page the comprehension submits
    work_queue,     \* the executor's queue: pages submitted and not started
    num_threads,    \* worker threads the executor has started
    in_flight,      \* pages whose request was sent and has not returned
    page_response,  \* per page: what the source answered, once its fetch ended
    requested,      \* history: pages ever requested from the source
    collected,      \* pages as_completed has yielded
    all_markets,    \* the list of page results
    flattened_markets, \* the returned list
    \* ---- run_live_sports_analysis, step 3
    l_pc,           \* "loop" | "done" | "raised"
    l_cfg,          \* min_liquidity, min_ask_price, max_ask_price, n: live markets
    l_idx,          \* live markets taken from the list so far
    l_market,       \* the live market taken last
    l_result,       \* what the loop did with l_market
    l_quotes,       \* get_quotes calls made for l_market
    filtered_markets, \* the list run_live_sports_analysis returns
    \* ---- the urgent filter (LocalTests/test_urgent_filter.py)
    u_pc,           \* "loop" | "done"
    u_cfg,          \* now: the instant of the call; n: length of sports_markets
    u_idx,          \* markets taken from the list so far
    u_market,       \* the market taken last
    u_result,       \* what the loop did with u_market
    urgent_markets, \* the list the urgent filter builds and sorts
    \* ---- buy_market_outcomes
    b_pc,           \* "start" | "buy" | "done" | "raised"
    b_cfg,          \* min_ask_price, max_ask_price
    b_market,       \* title: the market's question; pricing: its pricing_data
    positions,      \* the titles of balance["positions"]
    available_usd,  \* balance["available_usd"], in cents
    outcomes_to_buy, \* the qualifying outcomes
    b_next,         \* the next element of outcomes_to_buy
    orders,         \* history: the place_order calls made
    trading_results, \* the list of trade results
    \* ---- compute_edge_bps
    e_pc,           \* "call" | "done": a call of compute_edge_bps
    e_args,         \* its arguments fair and ask
    e_ret,          \* its return value
    \* ---- PolymarketClient.get_balance
    g_pc,           \* "start" | "orders" | "positions" | "total" | "done"
    balance_response,   \* what get_balance_allowance answered
    orders_response,    \* what get_orders answered
    positions_response, \* what the positions endpoint answered last
    g_orders,       \* the local orders, once bound
    g_positions,    \* the local positions, once bound
    balance,        \* available_usd, locked_usd, positions_usd, total_usd
    \* ---- run_monitor
    m_pc,           \* "start" | "loop" | "done" | "raised"
    trades,         \* the documents of the "trades" collection
    order_books,    \* order_books[i]: the book of the token of trades[i]
    trades_list,    \* the documents the query returned, as indices of trades
    m_idx,          \* documents of trades_list handled so far
    closing_orders, \* the place_order calls of this pass
    events,         \* "events" documents added by this pass
    m_result,       \* processed, closed, errors
    m_market_title,   \* the local market_title: "unbound" until line 46 binds it
    \* ---- the auto-trading phase of run_live_sports_analysis
    t_pc,           \* "start" | "loop" | "done"
    t_n,            \* len(filtered_markets)
    t_i,            \* markets of filtered_markets handled so far
    \* ---- the monitor service: POST /run
    m_runs,         \* passes of run_monitor started after the first
    \* ---- get_current
    c_calls,        \* calls of get_current made so far
    c_clock,        \* time.time() at the last call
    cache,          \* the document balances_cache/global, None when absent
    c_args,         \* force and now of the last call, and what it met
    c_client,       \* the last call constructed a PolymarketClient
    c_ret,          \* what the last call returned
    \* ---- the handlers of bot_a
    h_updates,          \* updates handled so far
    suggestion_docs,    \* the "suggestions" collection: id -> document
    confirm_button,     \* callback data of the confirm button last shown
    place_trade_calls,  \* the calls of place_trade
    \* ---- run_analysis of polytrade/analysis.py
    v_pc,           \* "loop" | "done"
    v_markets,      \* what list_markets() returned
    v_threshold,    \* settings.edge_bps
    v_max,          \* max_suggestions
    v_idx,          \* markets handled so far
    v_suggestions   \* the suggestions created

analysisVars ==
    <<a_pc, a_cfg, first_market, idx, market, a_result, suggestions, quoteCalls, addDocCalls,
      acceptableSeen>>

filterVars == <<f_pc, f_cfg, f_idx, f_market, f_result, live_markets>>

fetchVars ==
    <<p_pc, max_workers, sports_tag_ids, first_page, next_page, work_queue, num_threads,
      in_flight, page_response, requested, collected, all_markets, flattened_markets>>

liveVars == <<l_pc, l_cfg, l_idx, l_market, l_result, l_quotes, filtered_markets>>

urgentVars == <<u_pc, u_cfg, u_idx, u_market, u_result, urgent_markets>>

buyVars ==
    <<b_pc, b_cfg, b_market, positions, available_usd, outcomes_to_buy, b_next, orders,
      trading_results>>

edgeVars == <<e_pc, e_args, e_ret>>

balanceVars == <<g_pc, balance_response, orders_response, positions_response, g_orders, g_positions, balance>>

monitorVars == <<m_pc, trades, order_books, trades_list, m_idx, closing_orders, events, m_result,
                 m_market_title>>

tradingVars == <<t_pc, t_n, t_i>>

rerunVars == <<m_runs>>

currentVars == <<c_calls, c_clock, cache, c_args, c_client, c_ret>>

botVars == <<h_updates, suggestion_docs, confirm_button, place_trade_calls>>

variantVars == <<v_pc, v_markets, v_threshold, v_max, v_idx, v_suggestions>>

vars == <<analysisVars, filterVars, fetchVars, liveVars, urgentVars, buyVars, edgeVars, balanceVars, monitorVars, tradingVars, rerunVars, currentVars, botVars, variantVars>>

\* What each function leaves alone: the variables of the other functions.
notAnalysisVars == <<filterVars, fetchVars, liveVars, urgentVars, buyVars, edgeVars, balanceVars, monitorVars, tradingVars, rerunVars, currentVars, botVars, variantVars>>
notFilterVars == <<analysisVars, fetchVars, liveVars, urgentVars, buyVars, edgeVars, balanceVars, monitorVars, tradingVars, rerunVars, currentVars, botVars, variantVars>>
notFetchVars == <<analysisVars, filterVars, liveVars, urgentVars, buyVars, edgeVars, balanceVars, monitorVars, tradingVars, rerunVars, currentVars, botVars, variantVars>>
notLiveVars == <<analysisVars, filterVars, fetchVars, urgentVars, buyVars, edgeVars, balanceVars, monitorVars, tradingVars, rerunVars, currentVars, botVars, variantVars>>
notUrgentVars == <<analysisVars, filterVars, fetchVars, liveVars, buyVars, edgeVars, balanceVars, monitorVars, tradingVars, rerunVars, currentVars, botVars, variantVars>>
notBuyVars == <<analysisVars, filterVars, fetchVars, liveVars, urgentVars, edgeVars, balanceVars, monitorVars, tradingVars, rerunVars, currentVars, botVars, variantVars>>
notEdgeVars == <<analysisVars, filterVars, fetchVars, liveVars, urgentVars, buyVars, balanceVars, monitorVars, tradingVars, rerunVars, currentVars, botVars, variantVars>>
notBalanceVars == <<analysisVars, filterVars, fetchVars, liveVars, urgentVars, buyVars, edgeVars, monitorVars, tradingVars, rerunVars, currentVars, botVars, variantVars>>
notMonitorVars == <<analysisVars, filterVars, fetchVars, liveVars, urgentVars, buyVars, edgeVars, balanceVars, tradingVars, rerunVars, currentVars, botVars, variantVars>>
notTradingVars == <<analysisVars, filterVars, fetchVars, liveVars, urgentVars, buyVars, edgeVars, balanceVars, monitorVars, rerunVars, currentVars, botVars, variantVars>>
notRerunVars == <<analysisVars, filterVars, fetchVars, liveVars, urgentVars, buyVars, edgeVars, balanceVars, monitorVars, tradingVars, currentVars, botVars, variantVars>>
notCurrentVars == <<analysisVars, filterVars, fetchVars, liveVars, urgentVars, buyVars, edgeVars, balanceVars, monitorVars, tradingVars, rerunVars, botVars, variantVars>>
notBotVars == <<analysisVars, filterVars, fetchVars, liveVars, urgentVars, buyVars, edgeVars, balanceVars, monitorVars, tradingVars, rerunVars, currentVars, variantVars>>
notVariantVars == <<analysisVars, filterVars, fetchVars, liveVars, urgentVars, buyVars, edgeVars, balanceVars, monitorVars, tradingVars, rerunVars, currentVars, botVars>>

NULL == "null"        \* JSON null / Python None, in a string field

\* An optional number: None is the empty sequence, a number x is <<x>>.
None == << >>
Some(x) == <<x>>

Min(a, b) == IF a <= b THEN a ELSE b

(***************************************************************************)
(*                       run_analysis (analysis.py)                        *)
(***************************************************************************)

\* ---- bounds of the model
MaxTail == 3            \* free records at the end of the market list
MaxSuggestions == 2     \* max_suggestions ranges over 0..MaxSuggestions

\* ---- program constants
MinLiquidityUsd == 1000 \* settings.min_liquidity_usd
VerboseLimit == 5       \* "if idx <= 5": verbose logging
DetailLimit == 20       \* "elif idx <= 20": one-line logging
SizeHintCap == 10       \* min(liquidity * 0.01, 10.0)

\* The keys of the stats dict (analysis.py 68-78).
StatsKeys == {"total_markets", "no_tokens", "low_liquidity", "no_quotes",
              "invalid_price", "price_out_of_range", "insufficient_edge",
              "suggestions_created", "errors"}

\* (min_price, max_price) of a call, in cents; 20/80 are the defaults.
PriceConfigs == { [min_price |-> 20, max_price |-> 80],
                  [min_price |-> 0,  max_price |-> 80],
                  [min_price |-> 80, max_price |-> 20] }

\* What the CLOB answers for one token: an error, or the order book with the
\* prices of its bids and asks, best first.
ErrorBook == [error |-> TRUE, bids |-> << >>, asks |-> << >>]
NoAsksBook == [error |-> FALSE, bids |-> <<10>>, asks |-> << >>]
Book(bid, ask) == [error |-> FALSE, bids |-> <<bid>>, asks |-> <<ask>>]
OrderBooks == { ErrorBook, Book(18, 20), Book(88, 90) }

\* PolymarketClient.get_quotes: never raises; an error or an empty side is 0.
GetQuotes(book) ==
    IF book.error
    THEN [best_bid |-> 0, best_ask |-> 0]
    ELSE [best_bid |-> IF book.bids = << >> THEN 0 ELSE book.bids[1],
          best_ask |-> IF book.asks = << >> THEN 0 ELSE book.asks[1]]

\* The clobTokenIds field: absent, a list, or a string (JSON or not).
\* books[i] is the order book of the i-th token id.
ClobShapes ==
    { [kind |-> "absent", books |-> << >>],
      [kind |-> "badjson", books |-> << >>],
      [kind |-> "list", books |-> << >>],
      [kind |-> "list", books |-> <<NoAsksBook>>],
      [kind |-> "json", books |-> <<ErrorBook>>],
      [kind |-> "json", books |-> <<Book(78, 80)>>] }
    \cup { [kind |-> "list", books |-> <<b>>] : b \in OrderBooks }
    \cup { [kind |-> "list", books |-> <<b1, b2>>] : b1 \in OrderBooks, b2 \in OrderBooks }

\* question: a string or null; liquidityClob: a number or null.
MarketRecords ==
    { [question |-> q, clob |-> c, liquidityClob |-> l] :
        q \in {"text", NULL},
        c \in ClobShapes,
        l \in {None, Some(MinLiquidityUsd - 100), Some(MinLiquidityUsd)} }

\* A record rejected at check 1, used to pad the head of the list.
FillerMarket ==
    [question |-> "text", clob |-> [kind |-> "absent", books |-> << >>],
     liquidityClob |-> Some(MinLiquidityUsd)]

NoMarket == [question |-> "none"]
NoSuggestion == [side |-> "none"]

\* A parse that keeps the raw string as the one token when it is not JSON.
KeepRawString(m) ==
    IF m.clob.kind = "absent" THEN << >>
    ELSE IF m.clob.kind = "badjson" THEN <<1>>
    ELSE [i \in 1..Len(m.clob.books) |-> i]

\* Lines 101-111: the token ids of a record, as their positions 1..n.
ParseClobTokenIds(m) ==
    IF m.clob.kind \in {"absent", "badjson"}
    THEN << >>
    ELSE [i \in 1..Len(m.clob.books) |-> i]

\* Lines 152-168: the first token whose ask is in [min_price, max_price];
\* 0 when there is none.
FirstInRange(m, cfg) ==
    LET inRange == { i \in 1..Len(m.clob.books) :
                        LET q == GetQuotes(m.clob.books[i])
                        IN  cfg.min_price <= q.best_ask /\ q.best_ask <= cfg.max_price }
    IN  IF inRange = {} THEN 0
        ELSE CHOOSE i \in inRange : \A j \in inRange : i <= j

\* The loop without its break: the last token in range wins.
LastInRange(m, cfg) ==
    LET inRange == { i \in 1..Len(m.clob.books) :
                        LET q == GetQuotes(m.clob.books[i])
                        IN  cfg.min_price <= q.best_ask /\ q.best_ask <= cfg.max_price }
    IN  IF inRange = {} THEN 0
        ELSE CHOOSE i \in inRange : \A j \in inRange : i >= j

PickToken(m, cfg) == FirstInRange(m, cfg)

\* The floor compared against nothing: every liquidity passes.
NoFloor(liquidity) == liquidity < 0

\* Lines 138-144: the liquidity floor.
BelowFloor(liquidity) == liquidity < MinLiquidityUsd

\* Lines 266-276: the handler slices market_question for markets 6..20.
HandlerRaises(m, i) ==
    i > VerboseLimit /\ i <= DetailLimit /\ m.question = NULL

\* Lines 230-247: the suggestion for token t of market i.
\* ---- program constants
BpsPerUnit == 10000     \* basis points in 1

\* A number kept exactly, as num / den with den > 0.
Ratio(num, den) == [num |-> num, den |-> den]

\* The difference taken the other way round.
AskOverFair(fair, ask) ==
    IF ask <= 0 THEN Ratio(0, 1) ELSE Ratio((ask - fair) * BpsPerUnit, ask)

\* compute_edge_bps (lines 13-16); fair and ask in one unit.
ComputeEdgeBps(fair, ask) ==
    IF ask <= 0 THEN Ratio(0, 1) ELSE Ratio((fair - ask) * BpsPerUnit, ask)

MakeSuggestion(m, i, t) ==
    LET q == GetQuotes(m.clob.books[t])
    IN  [tokenId   |-> <<i, t>>,
         marketId  |-> i,
         side      |-> IF t = 1 THEN "BUY_YES" ELSE "BUY_NO",
         price     |-> q.best_ask,
         bid       |-> q.best_bid,
         \* lines 208-219: mid_price = (bid + ask) / 2 is the fair value;
         \* both arguments in half cents, which keeps the mid whole
         edge_bps  |-> ComputeEdgeBps(q.best_bid + q.best_ask, 2 * q.best_ask),
         liquidity |-> m.liquidityClob[1],
         sizeHint  |-> Min(m.liquidityClob[1] \div 100, SizeHintCap)]

\* One iteration of the loop body (lines 85-276) on market m at index i:
\*   status   what became of the record
\*   sugg     the suggestion appended, if any
\*   quotes   get_quotes calls made
\*   saved    add_doc calls made
ProcessMarket(m, i, cfg) ==
    LET caught == [status |-> IF HandlerRaises(m, i) THEN "raised" ELSE "error",
                   sugg |-> NoSuggestion, quotes |-> 0, saved |-> 0]
        tokens == ParseClobTokenIds(m)
        t      == PickToken(m, cfg)
        nq     == IF t = 0 THEN Len(tokens) ELSE t
    IN  IF m.question = NULL /\ i <= DetailLimit
        THEN caught                         \* 93, 95: None[:70] is a TypeError
        ELSE IF Len(tokens) = 0
        THEN [status |-> "no_tokens", sugg |-> NoSuggestion, quotes |-> 0, saved |-> 0]
        ELSE IF m.liquidityClob = None
        THEN caught                         \* 131: float(None) is a TypeError
        ELSE IF BelowFloor(m.liquidityClob[1])
        THEN IF "no_liquidity" \in StatsKeys \* 139: stats["no_liquidity"] += 1
             THEN [status |-> "low_liquidity", sugg |-> NoSuggestion,
                   quotes |-> 0, saved |-> 0]
             ELSE caught                    \* a KeyError
        ELSE IF t = 0
        THEN [status |-> "price_out_of_range", sugg |-> NoSuggestion,
              quotes |-> nq, saved |-> 0]
        ELSE IF GetQuotes(m.clob.books[t]).best_ask <= 0
        THEN [status |-> "invalid_price", sugg |-> NoSuggestion,
              quotes |-> nq, saved |-> 0]
        ELSE [status |-> IF m.question = NULL  \* 257: after the append
                         THEN "suggested_then_error" ELSE "suggested",
              sugg |-> MakeSuggestion(m, i, t), quotes |-> nq, saved |-> 1]

\* The acceptance criteria of the scorer, stated on the record alone: a
\* well-formed record with instruments, liquidity at the floor or above, and
\* whose first instrument quoted in [min_price, max_price] has a real ask.
AskOf(m, i) == GetQuotes(m.clob.books[i]).best_ask
InBand(m, i, cfg) == cfg.min_price <= AskOf(m, i) /\ AskOf(m, i) <= cfg.max_price
HasInstruments(m) == m.clob.kind \in {"list", "json"} /\ Len(m.clob.books) > 0
Acceptable(m, cfg) ==
    /\ m.question # NULL
    /\ HasInstruments(m)
    /\ m.liquidityClob # None
    /\ m.liquidityClob[1] >= MinLiquidityUsd
    /\ \E i \in 1..Len(m.clob.books) :
          /\ InBand(m, i, cfg)
          /\ AskOf(m, i) > 0
          /\ \A j \in 1..(i - 1) : ~InBand(m, j, cfg)

NoResult == [status |-> "none", sugg |-> NoSuggestion, quotes |-> 0, saved |-> 0]

\* The market list is a.pad filler records followed by a.tail free records.
\* A range with min_price > max_price is tried on the lists of at most one
\* record.
AnalysisConfigs ==
    { c \in { [max_suggestions |-> k, min_price |-> p.min_price, max_price |-> p.max_price,
               pad |-> d, tail |-> n] :
                k \in 0..MaxSuggestions, p \in PriceConfigs,
                d \in {0, VerboseLimit, DetailLimit}, n \in 0..MaxTail } :
        c.min_price <= c.max_price \/ c.pad + c.tail <= 1 }

NumMarkets == a_cfg.pad + a_cfg.tail

AnalysisInit ==
    /\ a_pc = "start"
    /\ a_cfg \in AnalysisConfigs
    /\ first_market = NoMarket
    /\ idx = 0
    /\ market = NoMarket
    /\ a_result = NoResult
    /\ suggestions = << >>
    /\ quoteCalls = 0
    /\ addDocCalls = 0
    /\ acceptableSeen = 0

AnalysisIdle ==
    /\ a_pc = "idle"
    /\ a_cfg = [max_suggestions |-> 0, min_price |-> 0, max_price |-> 0,
                pad |-> 0, tail |-> 0]
    /\ first_market = NoMarket
    /\ idx = 0
    /\ market = NoMarket
    /\ a_result = NoResult
    /\ suggestions = << >>
    /\ quoteCalls = 0
    /\ addDocCalls = 0
    /\ acceptableSeen = 0

\* The quota check off by one.
QuotaExceeded == Len(suggestions) > a_cfg.max_suggestions

\* Lines 80-83: the quota check at the head of each iteration.
QuotaReached == Len(suggestions) >= a_cfg.max_suggestions

\* The records the market at list position i (from 1) may be.
MarketsAt(i) ==
    LET any == IF i <= a_cfg.pad THEN {FillerMarket} ELSE MarketRecords
    IN  IF i = 1 /\ first_market # NoMarket
        THEN { m \in any : m.question = first_market.question }
        ELSE any

\* Lines 45-62: list_markets() has answered; when the list is not empty its
\* first market is logged, outside any try: a null question is a TypeError
\* that leaves run_analysis.
InspectFirstMarket ==
    /\ a_pc = "start"
    /\ IF NumMarkets = 0
       THEN a_pc' = "loop" /\ UNCHANGED first_market
       ELSE \E m \in MarketsAt(1) :
              /\ first_market' = [question |-> m.question]
              /\ a_pc' = IF m.question = NULL THEN "raised" ELSE "loop"
    /\ UNCHANGED <<a_cfg, idx, market, a_result, suggestions, quoteCalls, addDocCalls,
                   acceptableSeen>>
    /\ UNCHANGED notAnalysisVars

\* Lines 80-276: take the next market and run the loop body on it.
AnalyzeMarket ==
    /\ a_pc = "loop"
    /\ idx < NumMarkets
    /\ ~QuotaReached
    /\ \E m \in MarketsAt(idx + 1) :
         LET r == ProcessMarket(m, idx + 1, a_cfg)
         IN  /\ market' = m
             /\ a_result' = r
             /\ idx' = idx + 1
             /\ suggestions' = IF r.sugg = NoSuggestion THEN suggestions
                               ELSE Append(suggestions, r.sugg)
             /\ quoteCalls' = quoteCalls + r.quotes
             /\ addDocCalls' = addDocCalls + r.saved
             /\ a_pc' = IF r.status = "raised" THEN "raised" ELSE "loop"
             /\ acceptableSeen' = acceptableSeen + (IF Acceptable(m, a_cfg) THEN 1 ELSE 0)
    /\ UNCHANGED <<a_cfg, first_market>>
    /\ UNCHANGED notAnalysisVars

\* Lines 81-83: the quota is reached with markets left; break.
AnalysisBreak ==
    /\ a_pc = "loop"
    /\ idx < NumMarkets
    /\ QuotaReached
    /\ a_pc' = "done"
    /\ UNCHANGED <<a_cfg, first_market, idx, market, a_result, suggestions, quoteCalls,
                   addDocCalls, acceptableSeen>>
    /\ UNCHANGED notAnalysisVars

\* A return that saves the whole batch.
AnalysisReturnSavesBatch ==
    /\ a_pc = "loop"
    /\ idx = NumMarkets
    /\ a_pc' = "done"
    /\ addDocCalls' = addDocCalls + Len(suggestions)
    /\ UNCHANGED <<a_cfg, first_market, idx, market, a_result, suggestions, quoteCalls,
                   acceptableSeen>>
    /\ UNCHANGED notAnalysisVars

\* Lines 278-292: the list is exhausted; return suggestions.
AnalysisReturn ==
    /\ a_pc = "loop"
    /\ idx = NumMarkets
    /\ a_pc' = "done"
    /\ UNCHANGED <<a_cfg, first_market, idx, market, a_result, suggestions, quoteCalls,
                   addDocCalls, acceptableSeen>>
    /\ UNCHANGED notAnalysisVars

AnalysisNext == InspectFirstMarket \/ AnalyzeMarket \/ AnalysisBreak \/ AnalysisReturn

(***************************************************************************)
(*              filter_live_markets (live_sports_analysis.py)              *)
(***************************************************************************)

\* ---- bound of the model
MaxFilterMarkets == 3   \* length of the list given to filter_live_markets

\* ---- program constant
MinutesPerHour == 60    \* time_diff / 3600, with instants in minutes

\* A timestamp field of a market record.  A string in one of the date-time
\* shapes is its separator, the date and time it spells (as minutes) and its
\* suffix: "2025-11-09 03:00:00+00" is (" ", 03:00, "+00").
NoValue == [kind |-> "none", sep |-> "", clock |-> 0, suffix |-> ""]
EmptyString == [kind |-> "empty", sep |-> "", clock |-> 0, suffix |-> ""]
Garbage == [kind |-> "garbage", sep |-> "", clock |-> 0, suffix |-> ""]
Number == [kind |-> "number", sep |-> "", clock |-> 0, suffix |-> ""]
TimeString(sep, clock, suffix) ==
    [kind |-> "str", sep |-> sep, clock |-> clock, suffix |-> suffix]

\* Python truthiness: None and "" are falsy.
Truthy(v) == v.kind \notin {"none", "empty"}

\* Line 240: gameStartTime or eventStartTime or endDate.
FirstNonEmpty(m) ==
    IF Truthy(m.gameStartTime) THEN m.gameStartTime
    ELSE IF Truthy(m.eventStartTime) THEN m.eventStartTime
    ELSE m.endDate

\* The preference reversed: endDate first.
EndDateFirst(m) ==
    IF Truthy(m.endDate) THEN m.endDate
    ELSE IF Truthy(m.eventStartTime) THEN m.eventStartTime
    ELSE m.gameStartTime

StartTimeStr(m) == FirstNonEmpty(m)

\* str.replace on the only part of a date-time string that can hold the
\* pattern, its suffix.
KeepSuffix(suffix) == suffix      \* no replacement

ReplacePlus00(suffix) ==          \* .replace('+00', '+00:00')
    CASE suffix = "+00"    -> "+00:00"
      [] suffix = "+00:00" -> "+00:00:00"
      [] OTHER             -> suffix
ReplaceZ(suffix) ==               \* .replace('Z', '+00:00')
    CASE suffix = "Z" -> "+00:00"
      [] OTHER        -> suffix

\* datetime.fromisoformat on (clock, suffix): an aware datetime with its UTC
\* instant, a naive datetime, or a ValueError.
FromIsoFormat(clock, suffix) ==
    CASE suffix = "+00:00"    -> [ok |-> TRUE, aware |-> TRUE, utc |-> clock]
      [] suffix = "+00:00:00" -> [ok |-> TRUE, aware |-> TRUE, utc |-> clock]
      [] suffix = "+01:00"    -> [ok |-> TRUE, aware |-> TRUE, utc |-> clock - MinutesPerHour]
      [] suffix = ""          -> [ok |-> TRUE, aware |-> FALSE, utc |-> clock]
      [] OTHER                -> [ok |-> FALSE, aware |-> FALSE, utc |-> 0]

\* Lines 245-251: the datetime a truthy field value becomes.
ParseStart(v) ==
    IF v.kind = "number"
    THEN [ok |-> TRUE, aware |-> FALSE, utc |-> 0]     \* start_dt = the number
    ELSE IF v.kind = "garbage"
    THEN [ok |-> FALSE, aware |-> FALSE, utc |-> 0]    \* ValueError
    ELSE IF v.sep = " " /\ v.suffix \in {"+00", "+00:00", "+01:00"}
    THEN FromIsoFormat(v.clock, ReplacePlus00(v.suffix))
    ELSE FromIsoFormat(v.clock, ReplaceZ(v.suffix))

\* Lines 242-254: the start instant of a record: found is FALSE when no field
\* is set, when the parse fails, and when now_dt - start_dt is a TypeError (a
\* naive datetime or a number).
ResolveFrom(v) ==
    LET d == ParseStart(v)
    IN  IF Truthy(v) /\ d.ok /\ d.aware
        THEN [found |-> TRUE, utc |-> d.utc]
        ELSE [found |-> FALSE, utc |-> 0]

ResolveStart(m) == ResolveFrom(StartTimeStr(m))

\* A resolver that tries the next field when the selected one fails.
ResolveWithFallback(m) ==
    IF ResolveFrom(StartTimeStr(m)).found THEN ResolveFrom(StartTimeStr(m))
    ELSE ResolveFrom(m.endDate)

Resolve(m) == ResolveStart(m)

\* The window closed at 0.
LiveWindowClosed(since, lookback_hours) ==
    0 <= since /\ since <= lookback_hours * MinutesPerHour

\* Line 259: 0 < hours_since_start <= lookback_hours, since in minutes.
LiveWindow(since, lookback_hours) ==
    0 < since /\ since <= lookback_hours * MinutesPerHour

\* The instants tried: around now and around now - lookback.
ClocksAround(now, lookback_hours) ==
    { now - lookback_hours * MinutesPerHour - 1, now - lookback_hours * MinutesPerHour,
      now - 1, now, now + 1 }

\* The records given to the filter under configuration c.
FilterRecords(c) ==
    LET live   == TimeString("T", c.now - 1, "Z")
        future == TimeString("T", c.now + 1, "Z")
        shapes == { TimeString("T", c.now - 1, "Z"),
                    TimeString(" ", c.now - 1, "Z"),
                    TimeString("T", c.now - 1, "+00:00"),
                    TimeString(" ", c.now - 1, "+00:00"),
                    TimeString("T", c.now, "+01:00"),
                    TimeString(" ", c.now + MinutesPerHour - 1, "+01:00"),
                    TimeString("T", c.now - 1, "") }
        single == { NoValue, EmptyString, Garbage, Number }
                  \cup { TimeString(" ", t, "+00") : t \in ClocksAround(c.now, c.lookback_hours) }
                  \cup shapes
    IN  { [question |-> "text", gameStartTime |-> g, eventStartTime |-> NoValue,
           endDate |-> NoValue, _hours_since_start |-> None, _start_time |-> None] :
            g \in single }
        \cup
        { [question |-> "text", gameStartTime |-> g, eventStartTime |-> e, endDate |-> d,
           _hours_since_start |-> None, _start_time |-> None] :
            g \in {NoValue, EmptyString, Garbage, live, future},
            e \in {NoValue, live, future},
            d \in {NoValue, Garbage, live, future} }
        \cup
        { [question |-> NULL, gameStartTime |-> g, eventStartTime |-> NoValue,
           endDate |-> NoValue, _hours_since_start |-> None, _start_time |-> None] :
            g \in {NoValue, live, future} }

FilterConfigs ==
    { [now |-> t, lookback_hours |-> h, n |-> n] :
        t \in {720, 750}, h \in {1, 4}, n \in 0..MaxFilterMarkets }

NoFilterMarket == [question |-> "none", gameStartTime |-> NoValue,
                   eventStartTime |-> NoValue, endDate |-> NoValue,
                   _hours_since_start |-> None, _start_time |-> None]

\* The hours written over the record's gameStartTime.
AnnotateOverStart(m, since, start) ==
    [m EXCEPT !.gameStartTime = Number,
              !._hours_since_start = Some(since), !._start_time = Some(start)]

\* Lines 260-261: a market in the window gets the keys _hours_since_start
\* and _start_time; the dict is the caller's, changed in place.
Annotate(m, since, start) ==
    [m EXCEPT !._hours_since_start = Some(since), !._start_time = Some(start)]

\* list.sort(key=_hours_since_start): stable, ascending.
RECURSIVE InsertBySince(_, _)
InsertBySince(sorted, e) ==
    IF sorted = << >> THEN <<e>>
    ELSE IF sorted[Len(sorted)].since <= e.since THEN Append(sorted, e)
    ELSE Append(InsertBySince(SubSeq(sorted, 1, Len(sorted) - 1), e), sorted[Len(sorted)])

\* A list returned in the order of the input.
KeepInputOrder(list) == list

RECURSIVE SortBySince(_)
SortBySince(list) ==
    IF list = << >> THEN << >>
    ELSE InsertBySince(SortBySince(SubSeq(list, 1, Len(list) - 1)), list[Len(list)])

FilterInit ==
    /\ f_pc = "loop"
    /\ f_cfg \in FilterConfigs
    /\ f_idx = 0
    /\ f_market = NoFilterMarket
    /\ f_result = "none"
    /\ live_markets = << >>

FilterIdle ==
    /\ f_pc = "idle"
    /\ f_cfg = [now |-> 0, lookback_hours |-> 0, n |-> 0]
    /\ f_idx = 0
    /\ f_market = NoFilterMarket
    /\ f_result = "none"
    /\ live_markets = << >>

\* Lines 238-267: one iteration of the loop.  A market in the window gets
\* _hours_since_start and _start_time and is appended; line 263 then slices
\* its question inside the try, after the append.
FilterMarket ==
    /\ f_pc = "loop"
    /\ f_idx < f_cfg.n
    /\ \E m \in FilterRecords(f_cfg) :
         LET r     == Resolve(m)
             since == f_cfg.now - r.utc
             live  == r.found /\ LiveWindow(since, f_cfg.lookback_hours)
         IN  /\ f_market' = IF live THEN Annotate(m, since, r.utc) ELSE m
             /\ f_idx' = f_idx + 1
             /\ f_result' = IF live THEN "live"
                            ELSE IF ~Truthy(StartTimeStr(m)) THEN "no_timestamp"
                            ELSE IF ~r.found THEN "parse_error"
                            ELSE "not_live"
             /\ live_markets' =
                    IF live
                    THEN Append(live_markets,
                                [pos |-> f_idx + 1, since |-> since, start |-> r.utc])
                    ELSE live_markets
    /\ UNCHANGED <<f_pc, f_cfg>>
    /\ UNCHANGED notFilterVars

\* Lines 269-277: sort by _hours_since_start and return.
FilterReturn ==
    /\ f_pc = "loop"
    /\ f_idx = f_cfg.n
    /\ live_markets' = SortBySince(live_markets)
    /\ f_pc' = "done"
    /\ UNCHANGED <<f_cfg, f_idx, f_market, f_result>>
    /\ UNCHANGED notFilterVars

FilterNext == FilterMarket \/ FilterReturn

(***************************************************************************)
(*   fetch_markets_page, fetch_all_sports_markets (live_sports_analysis.py) *)
(***************************************************************************)

\* ---- bounds of the model
EstimatedPages == 4     \* estimated_pages (50 in the source), scaled down
MaxWorkers == 3         \* max_workers ranges over 0..MaxWorkers

\* The tag id /sports lists.
SportsTag == "sports"

\* Raw markets of a page: tag is the id of the market's one tag.
TaggedGame  == [id |-> 1, tag |-> SportsTag, question |-> "plain"]
KeywordGame == [id |-> 2, tag |-> "other", question |-> "nba game"]
Politics    == [id |-> 3, tag |-> "other", question |-> "plain"]
Untitled    == [id |-> 4, tag |-> "other", question |-> NULL]

\* What the source answers to one page request.
Response(kind, body) == [kind |-> kind, body |-> body]
Pending == Response("pending", << >>)
PageResponses ==
    { Response("http_error", << >>),       \* raise_for_status() raises
      Response("parse_error", << >>),      \* response.json() raises
      Response("ok", << >>),
      Response("ok", <<KeywordGame>>),
      Response("ok", <<TaggedGame, Politics>>),
      Response("ok", <<KeywordGame, Untitled>>) }  \* the filter raises: []

\* Lines 88-94: does the lower-cased question contain a keyword?
HasSportsKeyword(question) == question = "nba game"

\* Lines 96-113 on one market: "keep", "drop" or "raise" (None.lower()).
SportsCheck(m, tags) ==
    IF m.tag \in tags THEN "keep"
    ELSE IF m.question = NULL THEN "raise"
    ELSE IF HasSportsKeyword(m.question) THEN "keep"
    ELSE "drop"

RECURSIVE KeepSports(_, _)
KeepSports(body, tags) ==
    IF body = << >> THEN << >>
    ELSE LET rest == KeepSports(SubSeq(body, 1, Len(body) - 1), tags)
             m    == body[Len(body)]
         IN  IF SportsCheck(m, tags) = "keep" THEN Append(rest, m) ELSE rest

\* fetch_markets_page (lines 55-123): the sports markets of the page; an
\* HTTP error, a parse error or an exception in the filter gives [].
FetchMarketsPage(resp, tags) ==
    IF resp.kind # "ok" THEN << >>
    ELSE IF \E i \in 1..Len(resp.body) : SportsCheck(resp.body[i], tags) = "raise"
    THEN << >>
    ELSE KeepSports(resp.body, tags)

\* The pages given to the pool: range(1, estimated_pages).
PoolPages == 1..(EstimatedPages - 1)

\* A first page that is never taken for empty.
NeverEmpty(page) == FALSE

\* Line 163: "if not first_page".
IsEmptyPage(page) == page = << >>

\* A pool that starts a thread for every submission.
AlwaysSpawn == TRUE

\* ThreadPoolExecutor._adjust_thread_count: a thread is started only while
\* fewer than max_workers exist.
CanSpawn == num_threads < max_workers

\* A loop that is left at the first empty page.
LoopOverAtEmptyPage ==
    \/ collected = PoolPages
    \/ \E pg \in collected : FetchMarketsPage(page_response[pg], sports_tag_ids) = << >>

\* Lines 187-202: the as_completed loop ends when every future was yielded;
\* an empty or failed page is logged and the loop goes on.
LoopOver == collected = PoolPages

\* A flattening that keeps the page appended last.
FlattenLast(pages) == IF pages = << >> THEN << >> ELSE pages[Len(pages)].markets

RECURSIVE Flatten(_)
Flatten(pages) ==
    IF pages = << >> THEN << >>
    ELSE Flatten(SubSeq(pages, 1, Len(pages) - 1)) \o pages[Len(pages)].markets

FetchInit ==
    /\ p_pc = "tags"
    /\ max_workers \in 0..MaxWorkers
    /\ sports_tag_ids = {}
    /\ first_page = << >>
    /\ next_page = 1
    /\ work_queue = << >>
    /\ num_threads = 0
    /\ in_flight = {}
    /\ page_response = [pg \in PoolPages |-> Pending]
    /\ requested = {}
    /\ collected = {}
    /\ all_markets = << >>
    /\ flattened_markets = << >>

FetchIdle ==
    /\ p_pc = "idle"
    /\ max_workers = 0
    /\ sports_tag_ids = {}
    /\ first_page = << >>
    /\ next_page = 1
    /\ work_queue = << >>
    /\ num_threads = 0
    /\ in_flight = {}
    /\ page_response = [pg \in PoolPages |-> Pending]
    /\ requested = {}
    /\ collected = {}
    /\ all_markets = << >>
    /\ flattened_markets = << >>

\* Lines 139-155: read the sports tag ids; a failure leaves the set empty.
FetchSportsTags ==
    /\ p_pc = "tags"
    /\ sports_tag_ids' \in {{}, {SportsTag}}
    /\ p_pc' = "first"
    /\ UNCHANGED <<max_workers, first_page, next_page, work_queue, num_threads, in_flight,
                   page_response, requested, collected, all_markets, flattened_markets>>
    /\ UNCHANGED notFetchVars

\* Line 160: the caller's thread sends the request of page 0.
RequestFirstPage ==
    /\ p_pc = "first"
    /\ p_pc' = "first_wait"
    /\ in_flight' = in_flight \cup {0}
    /\ requested' = requested \cup {0}
    /\ UNCHANGED <<max_workers, sports_tag_ids, first_page, next_page, work_queue,
                   num_threads, page_response, collected, all_markets, flattened_markets>>
    /\ UNCHANGED notFetchVars

\* Lines 160-176: fetch_markets_page(0) returns; an empty first page
\* returns [].
FetchFirstPage ==
    /\ p_pc = "first_wait"
    /\ in_flight' = in_flight \ {0}
    /\ \E resp \in PageResponses :
         LET page == FetchMarketsPage(resp, sports_tag_ids)
         IN  /\ first_page' = page
             /\ IF IsEmptyPage(page)
                THEN p_pc' = "done" /\ all_markets' = << >>
                ELSE p_pc' = "pool"
                     /\ all_markets' = <<[page |-> 0, markets |-> page]>>
    /\ UNCHANGED <<max_workers, sports_tag_ids, next_page, work_queue, num_threads,
                   page_response, requested, collected, flattened_markets>>
    /\ UNCHANGED notFetchVars

\* Line 179: ThreadPoolExecutor(max_workers) raises ValueError for a width
\* that is not positive.
CreatePool ==
    /\ p_pc = "pool"
    /\ p_pc' = IF max_workers <= 0 THEN "raised" ELSE "submit"
    /\ UNCHANGED <<max_workers, sports_tag_ids, first_page, next_page, work_queue,
                   num_threads, in_flight, page_response, requested, collected,
                   all_markets, flattened_markets>>
    /\ UNCHANGED notFetchVars

\* Lines 181-184: executor.submit for the next page: the work item is queued
\* and a worker thread is started if the pool is not at its width.
SubmitPage ==
    /\ p_pc = "submit"
    /\ next_page \in PoolPages
    /\ work_queue' = Append(work_queue, next_page)
    /\ num_threads' = IF CanSpawn THEN num_threads + 1 ELSE num_threads
    /\ next_page' = next_page + 1
    /\ p_pc' = IF next_page + 1 \in PoolPages THEN "submit" ELSE "collect"
    /\ UNCHANGED <<max_workers, sports_tag_ids, first_page, in_flight, page_response,
                   requested, collected, all_markets, flattened_markets>>
    /\ UNCHANGED notFetchVars

\* An idle worker thread takes the head of the queue and sends the request.
WorkerStart ==
    /\ work_queue # << >>
    /\ Cardinality(in_flight \cap PoolPages) < num_threads
    /\ in_flight' = in_flight \cup {Head(work_queue)}
    /\ requested' = requested \cup {Head(work_queue)}
    /\ work_queue' = Tail(work_queue)
    /\ UNCHANGED <<p_pc, max_workers, sports_tag_ids, first_page, next_page, num_threads,
                   page_response, collected, all_markets, flattened_markets>>
    /\ UNCHANGED notFetchVars

\* The worker thread itself appends its page to all_markets.
WorkerAppends(pg) ==
    /\ pg \in in_flight
    /\ \E resp \in PageResponses :
         LET page_markets == FetchMarketsPage(resp, sports_tag_ids)
         IN  /\ page_response' = [page_response EXCEPT ![pg] = resp]
             /\ all_markets' = IF page_markets # << >>
                                THEN Append(all_markets, [page |-> pg, markets |-> page_markets])
                                ELSE all_markets
    /\ in_flight' = in_flight \ {pg}
    /\ UNCHANGED <<p_pc, max_workers, sports_tag_ids, first_page, next_page, work_queue,
                   num_threads, requested, collected, flattened_markets>>
    /\ UNCHANGED notFetchVars

\* The source answers page pg; fetch_markets_page returns and the future is
\* done.
WorkerFinish(pg) ==
    /\ pg \in in_flight
    /\ \E resp \in PageResponses : page_response' = [page_response EXCEPT ![pg] = resp]
    /\ in_flight' = in_flight \ {pg}
    /\ UNCHANGED <<p_pc, max_workers, sports_tag_ids, first_page, next_page, work_queue,
                   num_threads, requested, collected, all_markets, flattened_markets>>
    /\ UNCHANGED notFetchVars

\* Lines 187-202: as_completed yields a finished future; a page with
\* markets is appended to all_markets.
CollectPage(pg) ==
    /\ p_pc = "collect"
    /\ ~LoopOver
    /\ pg \notin collected
    /\ page_response[pg] # Pending
    /\ LET page_markets == FetchMarketsPage(page_response[pg], sports_tag_ids)
       IN  /\ all_markets' = IF page_markets # << >>
                              THEN Append(all_markets, [page |-> pg, markets |-> page_markets])
                              ELSE all_markets
    /\ collected' = collected \cup {pg}
    /\ UNCHANGED <<p_pc, max_workers, sports_tag_ids, first_page, next_page, work_queue,
                   num_threads, in_flight, page_response, requested, flattened_markets>>
    /\ UNCHANGED notFetchVars

\* Lines 203-213: the loop is over; leaving the with block waits for the
\* pool; the pages are flattened and returned.
FetchReturn ==
    /\ p_pc = "collect"
    /\ LoopOver
    /\ work_queue = << >> /\ in_flight = {}
    /\ flattened_markets' = Flatten(all_markets)
    /\ p_pc' = "done"
    /\ UNCHANGED <<max_workers, sports_tag_ids, first_page, next_page, work_queue,
                   num_threads, in_flight, page_response, requested, collected, all_markets>>
    /\ UNCHANGED notFetchVars

FetchNext ==
    \/ FetchSportsTags
    \/ RequestFirstPage
    \/ FetchFirstPage
    \/ CreatePool
    \/ SubmitPage
    \/ WorkerStart
    \/ \E pg \in PoolPages : WorkerFinish(pg)
    \/ \E pg \in PoolPages : CollectPage(pg)
    \/ FetchReturn

(***************************************************************************)
(*  fetch_market_pricing, run_live_sports_analysis step 3                   *)
(*  (live_sports_analysis.py)                                               *)
(*  The client is the edge of the model: what get_price and get_quotes      *)
(*  answer for a token is an input.                                         *)
(***************************************************************************)

\* ---- bounds of the model
MaxLiveMarkets == 2     \* live markets given to the loop

\* ---- program constants
LiveMinLiquidity == 500 \* default of min_liquidity
LookbackHours == 4      \* default of lookback_hours

\* (min_ask_price, max_ask_price) of a call, in cents; 93/96 are the defaults.
AskBands == { [min_ask_price |-> 93, max_ask_price |-> 96],
              [min_ask_price |-> 0,  max_ask_price |-> 96],
              [min_ask_price |-> 96, max_ask_price |-> 93] }

\* What the client answers for one token: price is the answer of
\* get_price(token, "BUY") (None: the call raises; 0: no price), book the
\* order book get_quotes reads.
PriceSource(price, book) == [price |-> price, book |-> book]
PriceSources ==
    { PriceSource(None, Book(93, 95)),
      PriceSource(Some(0), Book(93, 95)),
      PriceSource(Some(94), ErrorBook),
      PriceSource(Some(0), Book(48, 50)) }

\* PolymarketClient.get_price as fetch_market_pricing uses it: a number,
\* positive when the price endpoint has a price.
GetPrice(src) == src.price[1]

\* Lines 311-339: best_ask of one token's pricing entry: the price
\* endpoint if it is positive, else the order book; 0.0 if a call raised.
BestAsk(src) ==
    IF src.price = None THEN 0
    ELSE IF GetPrice(src) > 0 THEN GetPrice(src)
    ELSE GetQuotes(src.book).best_ask

\* The clobTokenIds field of a live market: absent, a list, or a string
\* (not JSON, a JSON list, or a JSON number).
LiveClobShapes ==
    { [kind |-> "absent", tokens |-> << >>],
      [kind |-> "badjson", tokens |-> << >>],
      [kind |-> "json_number", tokens |-> << >>],
      [kind |-> "list", tokens |-> << >>],
      [kind |-> "json", tokens |-> <<PriceSource(Some(0), Book(93, 95))>>] }
    \cup { [kind |-> "list", tokens |-> <<t>>] : t \in PriceSources }
    \cup { [kind |-> "list", tokens |-> <<t1, t2>>] : t1 \in PriceSources, t2 \in PriceSources }

\* The outcomes field: absent, a list of names, or a string that is not JSON.
OutcomeShapes ==
    { [kind |-> "absent", names |-> << >>],
      [kind |-> "badjson", names |-> << >>],
      [kind |-> "list", names |-> <<"YES", "NO">>],
      [kind |-> "list", names |-> <<"Over", "OVER">>],
      [kind |-> "list", names |-> <<"Over">>] }

\* The liquidityClob field: absent, null or a number of USD.
LiquidityField(kind, usd) == [kind |-> kind, usd |-> usd]
LiquidityFields ==
    { LiquidityField("absent", 0), LiquidityField("null", 0),
      LiquidityField("number", LiveMinLiquidity - 1),
      LiquidityField("number", LiveMinLiquidity) }

\* Line 841: the live markets are what filter_live_markets(lookback_hours)
\* returns, so _start_time is set and _hours_since_start (minutes here) is
\* in the window: every shape of record one minute after its start, and
\* the one-token markets at the far edge of the window.
\* Line 862 leaves a record below the floor before it reads any other
\* field: such records come with one token in range, or with none.
LiveRecords ==
    { [liquidityClob |-> f[1], clob |-> f[2], outcomes |-> f[3],
       hours_since_start |-> h, start_time |-> "set"] :
        f \in { t \in LiquidityFields \X LiveClobShapes \X OutcomeShapes :
                 \/ t[1].kind = "number" /\ t[1].usd >= LiveMinLiquidity
                 \/ t[2].kind = "absent" /\ t[3].kind = "absent"
                 \/ /\ t[2] = [kind |-> "list",
                                tokens |-> <<PriceSource(Some(94), ErrorBook)>>]
                    /\ t[3].names = <<"YES", "NO">> },
        h \in { s \in {0, 1} : LiveWindow(s, LookbackHours) } }
    \cup
    { [liquidityClob |-> LiquidityField("number", LiveMinLiquidity),
       clob |-> [kind |-> "list", tokens |-> <<t>>],
       outcomes |-> [kind |-> "list", names |-> <<"YES", "NO">>],
       hours_since_start |-> h, start_time |-> "set"] :
        t \in PriceSources,
        h \in { s \in {LookbackHours * MinutesPerHour, LookbackHours * MinutesPerHour + 1} :
                    LiveWindow(s, LookbackHours) } }

NoLiveMarket == [liquidityClob |-> "none"]

\* str.upper() on the names of the model.
Upper(name) == IF name = "Over" THEN "OVER" ELSE name

\* Lines 314, 333: the key of token i (from 1) in pricing_data.
OutcomeName(names, i) ==
    IF i <= Len(names) THEN names[i] ELSE <<"Option_1", "Option_2">>[i]

\* pricing_data[key] = entry on an insertion-ordered dict.
DictPut(dict, key, ask) ==
    IF \E k \in 1..Len(dict) : dict[k].key = key
    THEN [k \in 1..Len(dict) |->
            IF dict[k].key = key THEN [key |-> key, best_ask |-> ask] ELSE dict[k]]
    ELSE Append(dict, [key |-> key, best_ask |-> ask])

RECURSIVE PricingOf(_, _)
PricingOf(tokens, names) ==
    IF tokens = << >> THEN << >>
    ELSE DictPut(PricingOf(SubSeq(tokens, 1, Len(tokens) - 1), names),
                 OutcomeName(names, Len(tokens)), BestAsk(tokens[Len(tokens)]))

\* fetch_market_pricing (lines 280-345): the pricing entries in insertion
\* order; outcomes that are absent or not a list are named YES, NO.
FetchMarketPricing(m) ==
    PricingOf(m.clob.tokens,
              IF m.outcomes.kind = "list" THEN m.outcomes.names ELSE <<"YES", "NO">>)

\* Lines 895-903: the outcomes the loop walks.
LoopOutcomes(m) == IF m.outcomes.kind = "list" THEN m.outcomes.names ELSE << >>

\* Lines 907-927: the pricing entry of outcome i (from 1): by name, by
\* name without case, by position; 0 if none.
EntryFor(pricing, outcome, i) ==
    IF \E k \in 1..Len(pricing) : pricing[k].key = outcome
    THEN CHOOSE k \in 1..Len(pricing) : pricing[k].key = outcome
    ELSE IF \E k \in 1..Len(pricing) : Upper(pricing[k].key) = Upper(outcome)
    THEN CHOOSE k \in 1..Len(pricing) :
            /\ Upper(pricing[k].key) = Upper(outcome)
            /\ \A j \in 1..(k - 1) : Upper(pricing[j].key) # Upper(outcome)
    ELSE IF i <= Len(pricing) THEN i
    ELSE 0

\* Lines 906-954: the asks that enter outcomes_info: the positive asks of
\* the outcomes' entries, or of all entries if there are none.
\* Every ask taken for a price.
AllAsks(asks) == asks

RECURSIVE PositiveAsks(_)
PositiveAsks(asks) ==
    IF asks = << >> THEN << >>
    ELSE LET rest == PositiveAsks(SubSeq(asks, 1, Len(asks) - 1))
         IN  IF asks[Len(asks)] > 0 THEN Append(rest, asks[Len(asks)]) ELSE rest

OutcomesInfo(m, pricing) ==
    LET outcomes == LoopOutcomes(m)
        byOutcome == PositiveAsks(
            [i \in 1..Len(outcomes) |->
                LET k == EntryFor(pricing, outcomes[i], i)
                IN  IF k = 0 THEN 0 ELSE pricing[k].best_ask])
    IN  IF byOutcome # << >> THEN byOutcome
        ELSE PositiveAsks([k \in 1..Len(pricing) |-> pricing[k].best_ask])

\* Lines 936, 950: is some ask of outcomes_info in the target range?
HasTargetPrice(info, cfg) ==
    \E i \in 1..Len(info) :
        cfg.min_ask_price <= info[i] /\ info[i] <= cfg.max_ask_price

\* Line 861: float(market.get("liquidityClob", 0)); float(None) raises.
LiveLiquidity(m) == m.liquidityClob.usd

\* A liquidity check that lets every market through.
NoLiveFloor(liquidity, min_liquidity) == FALSE

\* Line 862: "if liquidity < min_liquidity: continue".
BelowLiveFloor(liquidity, min_liquidity) == liquidity < min_liquidity

\* Lines 859-970 on one live market: status, the get_quotes calls made
\* (one per token, line 313) and, for a market that passed, the entry
\* appended to filtered_markets.
ProcessLiveMarket(m, cfg) ==
    LET pricing == FetchMarketPricing(m)
        entry == [liquidity |-> LiveLiquidity(m),
                  hours_since_start |-> m.hours_since_start,
                  tokens |-> Len(m.clob.tokens),
                  asks |-> [k \in 1..Len(pricing) |-> pricing[k].best_ask]]
    IN  IF m.liquidityClob.kind = "null" THEN [status |-> "raised", entry |-> << >>, quotes |-> 0]
        ELSE IF BelowLiveFloor(LiveLiquidity(m), cfg.min_liquidity)
        THEN [status |-> "low_liquidity", entry |-> << >>, quotes |-> 0]
        ELSE IF ~(m.hours_since_start > 0 /\ m.start_time # NULL)
        THEN [status |-> "not_live", entry |-> << >>, quotes |-> 0]
        ELSE IF m.clob.kind \in {"absent", "badjson"} \/
                (m.clob.kind \in {"list", "json"} /\ m.clob.tokens = << >>)
        THEN [status |-> "no_tokens", entry |-> << >>, quotes |-> 0]
        ELSE IF m.clob.kind = "json_number"
        THEN [status |-> "error", entry |-> << >>, quotes |-> 0]
        ELSE IF HasTargetPrice(OutcomesInfo(m, pricing), cfg)
        THEN [status |-> "passed", entry |-> <<entry>>, quotes |-> Len(m.clob.tokens)]
        ELSE [status |-> "no_target_price", entry |-> << >>,
              quotes |-> Len(m.clob.tokens)]

\* A range with min_ask_price > max_ask_price is tried on at most one market.
LiveConfigs ==
    { c \in { [min_liquidity |-> LiveMinLiquidity, min_ask_price |-> b.min_ask_price,
               max_ask_price |-> b.max_ask_price, lookback_hours |-> LookbackHours,
               n |-> n] :
                b \in AskBands, n \in 0..MaxLiveMarkets } :
        c.min_ask_price <= c.max_ask_price \/ c.n <= 1 }

LiveInit ==
    /\ l_pc = "loop"
    /\ l_cfg \in LiveConfigs
    /\ l_idx = 0
    /\ l_market = NoLiveMarket
    /\ l_result = "none"
    /\ l_quotes = 0
    /\ filtered_markets = << >>

LiveIdle ==
    /\ l_pc = "idle"
    /\ l_cfg = [min_liquidity |-> 0, min_ask_price |-> 0, max_ask_price |-> 0,
                lookback_hours |-> 0, n |-> 0]
    /\ l_idx = 0
    /\ l_market = NoLiveMarket
    /\ l_result = "none"
    /\ l_quotes = 0
    /\ filtered_markets = << >>

\* Lines 859-970: one iteration of the loop over live_markets.
ScoreLiveMarket ==
    /\ l_pc = "loop"
    /\ l_idx < l_cfg.n
    /\ \E m \in LiveRecords :
         LET r == ProcessLiveMarket(m, l_cfg)
         IN  /\ l_market' = m
             /\ l_result' = r.status
             /\ l_quotes' = r.quotes
             /\ filtered_markets' = filtered_markets \o r.entry
             /\ l_pc' = IF r.status = "raised" THEN "raised" ELSE "loop"
    /\ l_idx' = l_idx + 1
    /\ UNCHANGED l_cfg
    /\ UNCHANGED notLiveVars

\* Lines 839-845, 972-1135: no live market, or the loop is over: logging,
\* notification and trading leave filtered_markets as it is; it is returned.
LiveReturn ==
    /\ l_pc = "loop"
    /\ l_idx = l_cfg.n
    /\ l_pc' = "done"
    /\ UNCHANGED <<l_cfg, l_idx, l_market, l_result, l_quotes, filtered_markets>>
    /\ UNCHANGED notLiveVars

LiveNext == ScoreLiveMarket \/ LiveReturn

(***************************************************************************)
(*        The urgent filter (LocalTests/test_urgent_filter.py, main)       *)
(***************************************************************************)

\* ---- bounds of the model
MaxUrgentMarkets == 3   \* length of sports_markets

\* ---- program constants
UrgentLookaheadHours == 6   \* "if hours_until <= 6"

\* Lines 58-70: the instant of the first non-empty field; the parse is the
\* one of filter_live_markets, and a failure is swallowed by "except: pass".
EndDt(m) == ResolveFrom(FirstNonEmpty(m))

\* A window that leaves out the events that have started.
UrgentWindowAhead(until) ==
    0 <= until /\ until <= UrgentLookaheadHours * MinutesPerHour

\* Line 73: hours_until <= 6, until in minutes.
UrgentWindow(until) == until <= UrgentLookaheadHours * MinutesPerHour

\* The records given to the urgent filter at instant now.
UrgentRecords(now) ==
    LET ahead == UrgentLookaheadHours * MinutesPerHour
        soon  == TimeString("T", now + 1, "Z")
        late  == TimeString("T", now + ahead + 1, "Z")
        single == { NoValue, EmptyString, Garbage, Number,
                    TimeString("T", now - 1, ""),
                    TimeString("T", now - MinutesPerHour, "Z"),
                    TimeString(" ", now + MinutesPerHour, "+01:00") }
                  \cup { TimeString(" ", t, "+00") :
                           t \in { now - 10 * MinutesPerHour, now - MinutesPerHour, now,
                                   now + ahead - 1, now + ahead, now + ahead + 1 } }
    IN  { [question |-> "text", gameStartTime |-> g, eventStartTime |-> NoValue,
           endDate |-> NoValue] : g \in single }
        \cup
        { [question |-> "text", gameStartTime |-> g, eventStartTime |-> NoValue,
           endDate |-> d] : g \in {NoValue, Garbage, soon, late}, d \in {soon, late} }

UrgentConfigs == { [now |-> 720, n |-> n] : n \in 0..MaxUrgentMarkets }

\* list.sort(key=_time_until): stable, ascending.
RECURSIVE InsertByUntil(_, _)
InsertByUntil(sorted, e) ==
    IF sorted = << >> THEN <<e>>
    ELSE IF sorted[Len(sorted)].until <= e.until THEN Append(sorted, e)
    ELSE Append(InsertByUntil(SubSeq(sorted, 1, Len(sorted) - 1), e), sorted[Len(sorted)])

RECURSIVE SortByUntil(_)
SortByUntil(list) ==
    IF list = << >> THEN << >>
    ELSE InsertByUntil(SortByUntil(SubSeq(list, 1, Len(list) - 1)), list[Len(list)])

UrgentInit ==
    /\ u_pc = "loop"
    /\ u_cfg \in UrgentConfigs
    /\ u_idx = 0
    /\ u_market = NoFilterMarket
    /\ u_result = "none"
    /\ urgent_markets = << >>

UrgentIdle ==
    /\ u_pc = "idle"
    /\ u_cfg = [now |-> 0, n |-> 0]
    /\ u_idx = 0
    /\ u_market = NoFilterMarket
    /\ u_result = "none"
    /\ urgent_markets = << >>

\* Lines 57-78: one iteration of the loop.  A market inside the window gets
\* _time_until and _hours_until and is appended.
UrgentMarket ==
    /\ u_pc = "loop"
    /\ u_idx < u_cfg.n
    /\ \E m \in UrgentRecords(u_cfg.now) :
         LET r      == EndDt(m)
             until  == r.utc - u_cfg.now
             urgent == r.found /\ UrgentWindow(until)
         IN  /\ u_market' = m
             /\ u_idx' = u_idx + 1
             /\ u_result' = IF urgent THEN "urgent"
                            ELSE IF ~Truthy(FirstNonEmpty(m)) THEN "no_timestamp"
                            ELSE IF ~r.found THEN "parse_error"
                            ELSE "not_urgent"
             /\ urgent_markets' =
                    IF urgent
                    THEN Append(urgent_markets, [pos |-> u_idx + 1, until |-> until])
                    ELSE urgent_markets
    /\ UNCHANGED <<u_pc, u_cfg>>
    /\ UNCHANGED notUrgentVars

\* Lines 80-81: sort by _time_until.
UrgentSort ==
    /\ u_pc = "loop"
    /\ u_idx = u_cfg.n
    /\ urgent_markets' = SortByUntil(urgent_markets)
    /\ u_pc' = "done"
    /\ UNCHANGED <<u_cfg, u_idx, u_market, u_result>>
    /\ UNCHANGED notUrgentVars

UrgentNext == UrgentMarket \/ UrgentSort

(***************************************************************************)
(*      has_existing_position, buy_market_outcomes                         *)
(*      (live_sports_analysis.py)                                          *)
(***************************************************************************)

\* ---- bounds of the model
MaxBuyOutcomes == 2     \* entries of a market's pricing_data

\* The titles of the model and str.strip().lower() on them.
Titles == {"Lakers vs Celtics", " lakers vs celtics ", "Oilers vs Stars"}
Normalize(title) ==
    CASE title = "Lakers vs Celtics"   -> "lakers vs celtics"
      [] title = " lakers vs celtics " -> "lakers vs celtics"
      [] title = "Oilers vs Stars"     -> "oilers vs stars"
      [] OTHER                         -> title

\* One entry of pricing_data, as fetch_market_pricing builds it: the token
\* id ("" when the list held an empty id) and best_ask in cents.
PricingEntries ==
    { [key |-> "any", token_id |-> t, best_ask |-> a] :
        t \in {"", "token"}, a \in {0, 95, 97} }

OutcomeKeys == <<"YES", "NO", "Option_3">>

\* The pricing_data of the model: up to MaxBuyOutcomes entries, keyed in
\* order.
PricingDatas ==
    UNION { { [k \in 1..n |-> [f[k] EXCEPT !.key = OutcomeKeys[k]]] :
                f \in [1..n -> PricingEntries] } : n \in 1..MaxBuyOutcomes }

\* The markets given to buy_market_outcomes: question may be empty or null.
BuyMarkets ==
    { [title |-> t, pricing |-> pd] :
        t \in {"Lakers vs Celtics", "", NULL}, pd \in PricingDatas }

NoBuyMarket == [title |-> "none", pricing |-> << >>]

\* No position ever taken for one of the market.
NoExistingPosition(market_title, held) == FALSE

\* has_existing_position (lines 443-468): a position whose title equals the
\* market's title, both non-empty, without case and surrounding blanks.
HasExistingPosition(market_title, held) ==
    \E k \in 1..Len(held) :
        /\ held[k] # "" /\ market_title \notin {"", NULL}
        /\ Normalize(held[k]) = Normalize(market_title)

\* A test that takes a zero ask for a price.
QualifiesWithZero(entry, cfg) ==
    cfg.min_ask_price <= entry.best_ask /\ entry.best_ask <= cfg.max_ask_price

\* Line 525: ask_price > 0 and min_ask_price <= ask_price <= max_ask_price.
Qualifies(entry, cfg) ==
    /\ entry.best_ask > 0
    /\ cfg.min_ask_price <= entry.best_ask /\ entry.best_ask <= cfg.max_ask_price

\* Lines 520-532: the outcomes to buy, in the order of pricing_data; the
\* cost of one share is its ask.
RECURSIVE OutcomesToBuy(_, _)
OutcomesToBuy(pricing, cfg) ==
    IF pricing = << >> THEN << >>
    ELSE LET rest  == OutcomesToBuy(SubSeq(pricing, 1, Len(pricing) - 1), cfg)
             entry == pricing[Len(pricing)]
         IN  IF Qualifies(entry, cfg) /\ entry.token_id # ""
             THEN Append(rest, [outcome_name |-> entry.key, token_id |-> entry.token_id,
                                ask_price |-> entry.best_ask, cost |-> entry.best_ask])
             ELSE rest

\* What place_order does with an order: it is accepted, it is refused
\* ("ok" false), or the call raises.
OrderOutcomes == {"ok", "refused", "raises"}

\* A trade result the caller passed in, from an earlier market.
PriorResult == [outcome |-> "earlier", status |-> "SUCCESS"]

BuyInit ==
    /\ b_pc = "start"
    /\ b_cfg \in AskBands
    /\ b_market \in BuyMarkets
    /\ positions \in {<< >>, <<"">>, <<" lakers vs celtics ">>, <<"Oilers vs Stars">>}
    /\ available_usd \in {0, 96, 200}
    /\ outcomes_to_buy = << >>
    /\ b_next = 1
    /\ orders = << >>
    /\ trading_results \in {<< >>, <<PriorResult>>}

BuyIdle ==
    /\ b_pc = "idle"
    /\ b_cfg = [min_ask_price |-> 0, max_ask_price |-> 0]
    /\ b_market = NoBuyMarket
    /\ positions = << >>
    /\ available_usd = 0
    /\ outcomes_to_buy = << >>
    /\ b_next = 1
    /\ orders = << >>
    /\ trading_results = << >>

\* Lines 494-541: an existing position returns at once; else the
\* qualifying outcomes are collected; the slices of market_title at lines
\* 535 and 540 raise for a null question.
ChooseOutcomes ==
    /\ b_pc = "start"
    /\ IF HasExistingPosition(b_market.title, positions)
       THEN b_pc' = "done" /\ UNCHANGED outcomes_to_buy
       ELSE IF b_market.title = NULL
       THEN b_pc' = "raised" /\ UNCHANGED outcomes_to_buy
       ELSE LET chosen == OutcomesToBuy(b_market.pricing, b_cfg)
            IN  /\ outcomes_to_buy' = chosen
                /\ b_pc' = IF chosen = << >> THEN "done" ELSE "buy"
    /\ UNCHANGED <<b_cfg, b_market, positions, available_usd, b_next, orders,
                   trading_results>>
    /\ UNCHANGED notBuyVars

\* An order placed whatever the balance.
NeverInsufficient(available, cost) == FALSE

\* Line 552: available_usd < cost.
InsufficientBalance(available, cost) == available < cost

\* Lines 544-721: one outcome of outcomes_to_buy: the balance check, then
\* place_order for one share at the ask; an accepted order lowers the
\* tracked balance by its cost.
BuyOutcome ==
    /\ b_pc = "buy"
    /\ b_next <= Len(outcomes_to_buy)
    /\ LET o == outcomes_to_buy[b_next]
       IN  IF InsufficientBalance(available_usd, o.cost)
           THEN /\ trading_results' =
                     Append(trading_results, [outcome |-> o.outcome_name, status |-> "FAILED"])
                /\ UNCHANGED <<orders, available_usd>>
           ELSE \E result \in OrderOutcomes :
                  /\ orders' = Append(orders, [token_id |-> o.token_id,
                                               outcome |-> o.outcome_name,
                                               price |-> o.ask_price, size |-> 1,
                                               result |-> result])
                  /\ available_usd' = IF result = "ok" THEN available_usd - o.cost
                                      ELSE available_usd
                  /\ trading_results' =
                       Append(trading_results,
                              [outcome |-> o.outcome_name,
                               status |-> IF result = "ok" THEN "SUCCESS" ELSE "FAILED"])
    /\ b_next' = b_next + 1
    /\ UNCHANGED <<b_pc, b_cfg, b_market, positions, outcomes_to_buy>>
    /\ UNCHANGED notBuyVars

\* Line 723: return trading_results.
BuyReturn ==
    /\ b_pc = "buy"
    /\ b_next > Len(outcomes_to_buy)
    /\ b_pc' = "done"
    /\ UNCHANGED <<b_cfg, b_market, positions, available_usd, outcomes_to_buy, b_next,
                   orders, trading_results>>
    /\ UNCHANGED notBuyVars

BuyNext == ChooseOutcomes \/ BuyOutcome \/ BuyReturn

(***************************************************************************)
(*                    compute_edge_bps (analysis.py)                       *)
(***************************************************************************)

\* ---- bounds of the model
MaxEdgePrice == 6       \* fair and ask range up to this, in half cents

EdgeInit ==
    /\ e_pc = "call"
    /\ e_args \in { [fair |-> f, ask |-> a] : f \in 0..MaxEdgePrice, a \in (-1)..MaxEdgePrice }
    /\ e_ret = Ratio(0, 1)

EdgeIdle ==
    /\ e_pc = "idle"
    /\ e_args = [fair |-> 0, ask |-> 0]
    /\ e_ret = Ratio(0, 1)

\* Lines 13-16: the call returns.
EdgeReturn ==
    /\ e_pc = "call"
    /\ e_ret' = ComputeEdgeBps(e_args.fair, e_args.ask)
    /\ e_pc' = "done"
    /\ UNCHANGED e_args
    /\ UNCHANGED notEdgeVars

EdgeNext == EdgeReturn

(***************************************************************************)
(*            PolymarketClient.get_balance (polymarket_client.py)          *)
(*                                                                         *)
(* Amounts of USD are in thousandths of a dollar, the raw collateral       *)
(* balance in millionths, order sizes in shares.                           *)
(***************************************************************************)

\* ---- bounds of the model
MaxOpenOrders == 2      \* open orders in a get_orders answer
MaxHeldPositions == 2   \* positions in an answer of the positions endpoint

\* ---- program constants
MicroPerUsd == 1000000  \* raw_balance / 1_000_000
MilliPerUsd == 1000     \* the unit of the model
ValueThreshold == 1     \* currentValue > 0.001

\* A local variable that an exception left unbound, or its value.
Unbound == [bound |-> FALSE, kind |-> "none", list |-> << >>]
Bound(kind, list) == [bound |-> TRUE, kind |-> kind, list |-> list]

\* get_balance_allowance: raises, or answers a dict (with or without
\* "balance"), a number, or something else.
BalanceResponses ==
    { [kind |-> "raises", balance |-> None],
      [kind |-> "dict", balance |-> None],
      [kind |-> "dict", balance |-> Some(15590000)],
      [kind |-> "number", balance |-> Some(2000000)],
      [kind |-> "other", balance |-> None] }

\* Lines 42-53: raw_balance.
RawBalance(resp) ==
    IF resp.kind \in {"dict", "number"} /\ resp.balance # None THEN resp.balance[1] ELSE 0

\* Lines 55-56: available_usd = raw_balance / 1_000_000; the raw balances
\* of the model are whole thousandths of a dollar.
AvailableUsd(raw) == raw \div (MicroPerUsd \div MilliPerUsd)

\* An open order: size is null or a number, price a number.
OpenOrders == { [size |-> s, price |-> 500] : s \in {None, Some(10)} }

RECURSIVE SeqsUpTo(_, _)
SeqsUpTo(S, n) ==
    IF n = 0 THEN { << >> }
    ELSE LET shorter == SeqsUpTo(S, n - 1)
         IN  shorter \cup { Append(q, x) : q \in { r \in shorter : Len(r) = n - 1 }, x \in S }

\* get_orders: raises, or answers a list, or a dict with the list in "data".
OrdersResponses ==
    { [kind |-> "raises", orders |-> << >>] }
    \cup { [kind |-> k, orders |-> q] : k \in {"list", "data"}, q \in SeqsUpTo(OpenOrders, MaxOpenOrders) }

\* Lines 84-99: the sum of size * price over the orders that parse; an order
\* with a null size is a TypeError, caught in the loop, and is left out.
RECURSIVE LockedUsd(_)
LockedUsd(open) ==
    IF open = << >> THEN 0
    ELSE LET o == open[Len(open)]
             rest == LockedUsd(SubSeq(open, 1, Len(open) - 1))
         IN  IF o.size = None THEN rest ELSE rest + o.size[1] * o.price

\* A position: currentValue is absent, null or a number; title is a string
\* or null.
HeldPositions ==
    { [currentValue |-> v, title |-> t] :
        v \in { [kind |-> "absent", usd |-> 0], [kind |-> "null", usd |-> 0],
                [kind |-> "number", usd |-> ValueThreshold],
                [kind |-> "number", usd |-> ValueThreshold + 1],
                [kind |-> "number", usd |-> 75500] },
        t \in {"title", NULL} }

\* The positions endpoint: an HTTP error, a body that is not JSON, a JSON
\* object, or a list of positions.
PositionsResponses ==
    { [kind |-> k, positions |-> << >>] : k \in {"http_error", "parse_error", "dict"} }
    \cup { [kind |-> "list", positions |-> q] : q \in SeqsUpTo(HeldPositions, MaxHeldPositions) }

\* float(p.get("currentValue", 0.0)); a null is a TypeError.
ValueRaises(held) ==
    \E i \in 1..Len(held) : held[i].currentValue.kind = "null"
ValueOf(p) == IF p.currentValue.kind = "number" THEN p.currentValue.usd ELSE 0

\* Line 215: the positions kept, those of value above 0.001.
IsActive(p) == ValueOf(p) > ValueThreshold

\* Lines 226-274: the sum of the active positions' values; position_value is
\* added at line 266, after title[:60] at line 259, which for a null title is
\* a TypeError caught at line 269: that position is left out.
RECURSIVE PositionsUsd(_)
PositionsUsd(held) ==
    IF held = << >> THEN 0
    ELSE LET p == held[Len(held)]
             rest == PositionsUsd(SubSeq(held, 1, Len(held) - 1))
         IN  IF IsActive(p) /\ p.title # NULL THEN rest + ValueOf(p) ELSE rest

ZeroBalance == [available_usd |-> 0, locked_usd |-> 0, positions_usd |-> 0, total_usd |-> 0]

BalanceInit ==
    /\ g_pc = "start"
    /\ balance_response = [kind |-> "none", balance |-> None]
    /\ orders_response = [kind |-> "none", orders |-> << >>]
    /\ positions_response = [kind |-> "none", positions |-> << >>]
    /\ g_orders = Unbound
    /\ g_positions = Unbound
    /\ balance = ZeroBalance

BalanceIdle ==
    /\ g_pc = "idle"
    /\ balance_response = [kind |-> "none", balance |-> None]
    /\ orders_response = [kind |-> "none", orders |-> << >>]
    /\ positions_response = [kind |-> "none", positions |-> << >>]
    /\ g_orders = Unbound
    /\ g_positions = Unbound
    /\ balance = ZeroBalance

\* Lines 32-56: the collateral balance is asked for; an exception goes to
\* the handler of the function (lines 346-354), which returns zeros.
GetBalanceAllowance ==
    /\ g_pc = "start"
    /\ \E resp \in BalanceResponses :
         /\ balance_response' = resp
         /\ IF resp.kind = "raises"
            THEN g_pc' = "done" /\ balance' = ZeroBalance
            ELSE /\ g_pc' = "orders"
                 /\ balance' = [ZeroBalance EXCEPT
                                  !.available_usd = AvailableUsd(RawBalance(resp))]
    /\ UNCHANGED <<orders_response, positions_response, g_orders, g_positions>>
    /\ UNCHANGED notBalanceVars

\* Lines 63-103: the open orders are asked for and summed.  When get_orders
\* raises, "except httpx.HTTPError" at line 284 reads httpx, which the
\* import at line 113 makes a local of the function and which is not bound
\* yet: an UnboundLocalError, and the function returns zeros.
GetOrders ==
    /\ g_pc = "orders"
    /\ \E resp \in OrdersResponses :
         /\ orders_response' = resp
         /\ IF resp.kind = "raises"
            THEN /\ g_pc' = "done"
                 /\ balance' = ZeroBalance
                 /\ UNCHANGED g_orders
            ELSE /\ g_pc' = "positions"
                 /\ g_orders' = Bound("list", resp.orders)
                 /\ balance' = [balance EXCEPT !.locked_usd = LockedUsd(resp.orders)]
    /\ UNCHANGED <<balance_response, positions_response, g_positions>>
    /\ UNCHANGED notBalanceVars

\* Lines 105-293, with PROXY_ADDRESS set: the positions are asked for; an
\* empty answer is asked for again under the wallet address (lines 172-195).
\* An HTTP error sets positions_usd to 0 (line 286), any other exception
\* sets locked_usd and positions_usd to 0 (lines 292-293); positions stays
\* unbound when the first request fails.
GetPositions ==
    /\ g_pc = "positions"
    /\ \E r1 \in PositionsResponses :
         \E r2 \in IF r1.kind = "list" /\ r1.positions = << >>
                   THEN PositionsResponses ELSE {r1} :
            LET again  == r1.kind = "list" /\ r1.positions = << >>
                failed == r2.kind \in {"http_error", "parse_error"}
                bound  == IF failed THEN (IF again THEN Bound("list", << >>) ELSE Unbound)
                          ELSE Bound(r2.kind, r2.positions)
            IN  /\ positions_response' = r2
                /\ g_positions' = bound
                /\ balance' =
                      IF r2.kind = "http_error"
                      THEN [balance EXCEPT !.positions_usd = 0]
                      ELSE IF r2.kind = "parse_error" \/
                              (r2.kind = "list" /\ ValueRaises(r2.positions))
                      THEN [balance EXCEPT !.locked_usd = 0, !.positions_usd = 0]
                      ELSE IF r2.kind = "list"
                      THEN [balance EXCEPT !.positions_usd = PositionsUsd(r2.positions)]
                      ELSE balance
    /\ g_pc' = "total"
    /\ UNCHANGED <<balance_response, orders_response, g_orders>>
    /\ UNCHANGED notBalanceVars

\* Lines 295-345: the total and the detailed lists.  Line 312 reads
\* positions: unbound, it is an UnboundLocalError; lines 313 and 332-334
\* convert currentValue and size again, outside any inner try.  Each of
\* these goes to the handler of the function, which returns zeros.
BalanceReturn ==
    /\ g_pc = "total"
    /\ balance' =
          IF \/ ~g_positions.bound
             \/ g_positions.kind = "list" /\ ValueRaises(g_positions.list)
             \/ \E i \in 1..Len(g_orders.list) : g_orders.list[i].size = None
          THEN ZeroBalance
          ELSE [balance EXCEPT !.total_usd =
                   balance.available_usd + balance.locked_usd + balance.positions_usd]
    /\ g_pc' = "done"
    /\ UNCHANGED <<balance_response, orders_response, positions_response, g_orders,
                   g_positions>>
    /\ UNCHANGED notBalanceVars

BalanceNext == GetBalanceAllowance \/ GetOrders \/ GetPositions \/ BalanceReturn

(***************************************************************************)
(*                     run_monitor (monitor/monitor.py)                    *)
(*                                                                         *)
(* Prices are in cents, slPct and tpPct in percent.  The prices of the     *)
(* model are ones on which the code's floating-point comparison and the    *)
(* exact one agree.                                                        *)
(***************************************************************************)

\* ---- bounds of the model
MaxOpenTrades == 51     \* documents in the "trades" collection
MaxBadPosition == 2     \* where a document with a null size can stand

\* ---- program constants
QueryLimit == 50        \* .limit(50)
DefaultSlPct == 15      \* slPct of a trade, 0.15
DefaultTpPct == 25      \* tpPct of a trade, 0.25
PercentPerUnit == 100   \* the unit of slPct and tpPct

\* A trade document as place_trade and buy_market_outcomes write it.
Trade(side, entryPx, status) ==
    [side |-> side, size |-> Some(1), entryPx |-> entryPx, slPct |-> DefaultSlPct,
     tpPct |-> DefaultTpPct, status |-> status, closeReason |-> NULL,
     exitPx |-> None, pnl |-> 0]

\* A trade inside both limits, and its book.
CalmTrade == Trade("BUY_YES", 40, "OPEN")

\* A trade document whose size is null: float(None) raises at line 41.
BadTrade == [CalmTrade EXCEPT !.size = None]
CalmBook == Book(35, 74)

\* The last document of the collection and its book vary; the documents
\* before it are calm open trades.
LastTrades ==
    { Trade(side, entryPx, status) :
        side \in {"BUY_YES", "SELL"}, entryPx \in {0, 40, 60},
        status \in {"OPEN", "FAILED"} }
LastBooks == { Book(0, 34), Book(34, 35), Book(35, 74), Book(74, 75), Book(75, 0) }

\* Line 59: side.upper().startswith("BUY").
StartsWithBuy(side) == side \in {"BUY", "BUY_YES", "BUY_NO"}

\* Lines 59-66: a long position exits at the bid, a short one at the ask.
CurrentPrice(trade, quotes) ==
    IF StartsWithBuy(trade.side) THEN quotes.best_bid ELSE quotes.best_ask
OppositeSide(trade) == IF StartsWithBuy(trade.side) THEN "SELL" ELSE "BUY"

\* Lines 73 and 80: pnl_pct <= -sl_pct, with pnl_pct = (current - entry) / entry.
StopLossHit(trade, current) ==
    (current - trade.entryPx) * PercentPerUnit <= (0 - trade.slPct) * trade.entryPx

\* Lines 73 and 85: pnl_pct >= tp_pct.
TakeProfitHit(trade, current) ==
    (current - trade.entryPx) * PercentPerUnit >= trade.tpPct * trade.entryPx

\* Lines 80-91: the reason to close, or "none".
CloseReason(trade, current) ==
    IF StopLossHit(trade, current) THEN "STOP_LOSS"
    ELSE IF TakeProfitHit(trade, current) THEN "TAKE_PROFIT"
    ELSE "none"

\* Any answer of place_order taken for a success.
AnyAnswer(outcome) == TRUE

\* Line 103: close_order.get("ok").
OrderOk(outcome) == outcome = "ok"

\* Line 23: the open trades, at most 50 of them.
RECURSIVE OpenTrades(_, _)
OpenTrades(docs, i) ==
    IF i > Len(docs) THEN << >>
    ELSE IF docs[i].status = "OPEN" THEN <<i>> \o OpenTrades(docs, i + 1)
    ELSE OpenTrades(docs, i + 1)
Limit(list, n) == SubSeq(list, 1, Min(Len(list), n))

NoMonitorResult == [processed |-> 0, closed |-> 0, errors |-> 0]

MonitorInit ==
    /\ m_pc = "start"
    /\ \E n \in 0..MaxOpenTrades : \E last \in LastTrades : \E book \in LastBooks :
       \E bad \in 0..MaxBadPosition :
         /\ n = 0 => last = CalmTrade /\ book = CalmBook
         /\ bad >= n => bad = 0
         /\ trades = [i \in 1..n |-> IF i = n THEN last
                                     ELSE IF i = bad THEN BadTrade ELSE CalmTrade]
         /\ order_books = [i \in 1..n |-> IF i = n THEN book ELSE CalmBook]
    /\ trades_list = << >>
    /\ m_idx = 0
    /\ closing_orders = << >>
    /\ events = 0
    /\ m_result = NoMonitorResult
    /\ m_market_title = "unbound"

MonitorIdle ==
    /\ m_pc = "idle"
    /\ trades = << >>
    /\ order_books = << >>
    /\ trades_list = << >>
    /\ m_idx = 0
    /\ closing_orders = << >>
    /\ events = 0
    /\ m_result = NoMonitorResult
    /\ m_market_title = "unbound"

\* Lines 18-30: the query and the counters.
QueryOpenTrades ==
    /\ m_pc = "start"
    /\ trades_list' = Limit(OpenTrades(trades, 1), QueryLimit)
    /\ m_pc' = "loop"
    /\ UNCHANGED <<trades, order_books, m_idx, closing_orders, events, m_result, m_market_title>>
    /\ UNCHANGED notMonitorVars

\* Lines 149-155: the handler of the loop reads market_title at line 151.  The
\* name is bound by line 46 of this iteration or of an earlier one of the same
\* call; when it is not bound the handler raises UnboundLocalError itself.
TitleUnbound(title) == title = "unbound"

\* Lines 32-155: one trade of the list.  The answer of place_order and the
\* success of the update of the document are inputs; an exception of either
\* is caught at line 149 and counted as an error.  A size that float() does
\* not take raises at line 41, before line 46.
MonitorTrade ==
    /\ m_pc = "loop"
    /\ m_idx < Len(trades_list)
    /\ LET i       == trades_list[m_idx + 1]
           trade   == trades[i]
           current == CurrentPrice(trade, GetQuotes(order_books[i]))
           reason  == CloseReason(trade, current)
           seen    == [m_result EXCEPT !.processed = @ + 1]
       IN  IF trade.size = None
           THEN /\ IF TitleUnbound(m_market_title)
                   THEN /\ m_pc' = "raised"
                        /\ m_result' = seen
                   ELSE /\ m_pc' = m_pc
                        /\ m_result' = [seen EXCEPT !.errors = @ + 1]
                /\ UNCHANGED <<trades, closing_orders, events, m_market_title>>
           ELSE
           /\ m_market_title' = "bound"
           /\ m_pc' = m_pc
           /\ IF current <= 0 \/ trade.entryPx <= 0 \/ reason = "none"
              THEN /\ m_result' = seen
                   /\ UNCHANGED <<trades, closing_orders, events>>
              ELSE \E outcome \in {"ok", "not ok", "raises"} : \E updated \in BOOLEAN :
                   /\ closing_orders' = Append(closing_orders,
                          [trade |-> i, side |-> OppositeSide(trade), price |-> current,
                           size |-> trade.size[1], result |-> outcome])
                   /\ IF outcome # "raises" /\ OrderOk(outcome) /\ updated
                      THEN /\ trades' = [trades EXCEPT ![i] =
                                  [@ EXCEPT !.status = "CLOSED",
                                            !.exitPx = Some(current),
                                            !.pnl = (current - trade.entryPx) * trade.size[1],
                                            !.closeReason = reason]]
                           /\ events' = events + 1
                           /\ m_result' = [seen EXCEPT !.closed = @ + 1]
                      ELSE /\ m_result' = [seen EXCEPT !.errors = @ + 1]
                           /\ UNCHANGED <<trades, events>>
    /\ m_idx' = m_idx + 1
    /\ UNCHANGED <<order_books, trades_list>>
    /\ UNCHANGED notMonitorVars

\* Lines 157-171: the summary.
MonitorReturn ==
    /\ m_pc = "loop"
    /\ m_idx = Len(trades_list)
    /\ m_pc' = "done"
    /\ UNCHANGED <<trades, order_books, trades_list, m_idx, closing_orders, events, m_result,
                   m_market_title>>
    /\ UNCHANGED notMonitorVars

MonitorNext == QueryOpenTrades \/ MonitorTrade \/ MonitorReturn

(***************************************************************************)
(*   The auto-trading phase of run_live_sports_analysis: the loop that     *)
(*   calls buy_market_outcomes for each filtered market.  The balance is   *)
(*   the one buy_market_outcomes tracks; amounts are in cents.             *)
(***************************************************************************)

\* ---- bounds of the model
MaxTradedMarkets == 5   \* filtered markets of a run

\* ---- program constants
RefreshEvery == 5       \* i % 5 == 0
MinTradingUsd == 100    \* available_usd < 1.0 skips auto-trading

\* The band of the run: the one of the defaults.
TradingBand == [min_ask_price |-> 93, max_ask_price |-> 96]

\* The filtered markets of the model: without pricing data, with one
\* outcome asked at 95 or at 97, or with two outcomes asked at 95.
TradedMarkets ==
    { [title |-> "Lakers vs Celtics", pricing |-> pd] :
        pd \in { << >>,
                 <<[key |-> "YES", token_id |-> "token", best_ask |-> 95]>>,
                 <<[key |-> "YES", token_id |-> "token", best_ask |-> 97]>>,
                 <<[key |-> "YES", token_id |-> "token", best_ask |-> 95],
                   [key |-> "NO", token_id |-> "token", best_ask |-> 95]>> } }

\* What get_current(force=True) answers: the available balance in cents.
FreshBalances == {0, 96, 100, 200}

\* Lines 995-998: the balance is fetched before anything is bought.
TradingInit ==
    /\ t_pc = "start"
    /\ t_n \in 0..MaxTradedMarkets
    /\ t_i = 0
    /\ b_pc = "caller"
    /\ b_cfg = TradingBand
    /\ b_market = NoBuyMarket
    /\ positions = << >>
    /\ available_usd \in FreshBalances
    /\ outcomes_to_buy = << >>
    /\ b_next = 1
    /\ orders = << >>
    /\ trading_results = << >>

TradingIdle ==
    /\ t_pc = "idle"
    /\ t_n = 0
    /\ t_i = 0

\* Lines 1003-1042: with less than a dollar available nothing is bought.
CheckBalance ==
    /\ t_pc = "start"
    /\ t_pc' = IF available_usd < MinTradingUsd THEN "done" ELSE "loop"
    /\ UNCHANGED <<t_n, t_i>>
    /\ UNCHANGED notTradingVars

\* Lines 1050-1070: the next market; one without pricing data is skipped
\* (and the refresh of line 1084 with it), the others are given to
\* buy_market_outcomes with the balance and the results so far.
CallBuyMarketOutcomes ==
    /\ t_pc = "loop"
    /\ b_pc = "caller"
    /\ t_i < t_n
    /\ \E m \in TradedMarkets :
         IF m.pricing = << >>
         THEN /\ t_i' = t_i + 1
              /\ UNCHANGED <<b_pc, b_market, outcomes_to_buy, b_next, orders>>
         ELSE /\ b_market' = m
              /\ b_pc' = "start"
              /\ outcomes_to_buy' = << >>
              /\ b_next' = 1
              /\ orders' = << >>
              /\ UNCHANGED t_i
    /\ UNCHANGED <<t_pc, t_n, b_cfg, positions, available_usd, trading_results>>
    /\ UNCHANGED <<analysisVars, filterVars, fetchVars, liveVars, urgentVars, edgeVars,
                   balanceVars, monitorVars, rerunVars, currentVars, botVars, variantVars>>

\* Lines 1072-1086: back from buy_market_outcomes; after every fifth market
\* the balance is fetched again.
AfterBuy ==
    /\ t_pc = "loop"
    /\ b_pc = "done"
    /\ t_i' = t_i + 1
    /\ b_pc' = "caller"
    /\ IF (t_i + 1) % RefreshEvery = 0
       THEN \E fresh \in FreshBalances : available_usd' = fresh
       ELSE UNCHANGED available_usd
    /\ UNCHANGED <<t_pc, t_n, b_cfg, b_market, positions, outcomes_to_buy, b_next, orders,
                   trading_results>>
    /\ UNCHANGED <<analysisVars, filterVars, fetchVars, liveVars, urgentVars, edgeVars,
                   balanceVars, monitorVars, rerunVars, currentVars, botVars, variantVars>>

\* Lines 1088-1100: the loop is over.
TradingReturn ==
    /\ t_pc = "loop"
    /\ b_pc = "caller"
    /\ t_i = t_n
    /\ t_pc' = "done"
    /\ UNCHANGED <<t_n, t_i>>
    /\ UNCHANGED notTradingVars

TradingNext ==
    \/ CheckBalance \/ CallBuyMarketOutcomes \/ ChooseOutcomes \/ BuyOutcome
    \/ BuyReturn \/ AfterBuy \/ TradingReturn

(***************************************************************************)
(*   The monitor service (monitor/app.py): each POST /run is a pass of     *)
(*   run_monitor over the same collection.  closing_orders keeps the       *)
(*   orders of all passes.                                                 *)
(***************************************************************************)

\* ---- bounds of the model
MaxMonitorRuns == 1     \* passes after the first

RerunIdle == m_runs = 0

\* app.py lines 16-21: the next request starts a pass when the last one has
\* returned or raised.
MonitorAgain ==
    /\ m_pc \in {"done", "raised"}
    /\ m_runs < MaxMonitorRuns
    /\ m_runs' = m_runs + 1
    /\ m_pc' = "start"
    /\ trades_list' = << >>
    /\ m_idx' = 0
    /\ m_result' = NoMonitorResult
    /\ m_market_title' = "unbound"
    /\ UNCHANGED <<trades, order_books, closing_orders, events>>
    /\ UNCHANGED <<analysisVars, filterVars, fetchVars, liveVars, urgentVars, buyVars,
                   edgeVars, balanceVars, tradingVars, currentVars, botVars,
                   variantVars>>

MonitorRunsNext == QueryOpenTrades \/ MonitorTrade \/ MonitorReturn \/ MonitorAgain

(***************************************************************************)
(*   get_current of shared/balances.py: the balance served from the cache  *)
(*   document balances_cache/global or fetched from the venue.  One call   *)
(*   is one step; calls follow one another.  Time is in seconds.           *)
(***************************************************************************)

\* ---- bounds of the model
MaxCalls == 3           \* calls of get_current in a run

\* ---- program constants
TtlSeconds == 30        \* _TTL_SECONDS

\* Seconds between a call and the one before it.
ClockSteps == {0, TtlSeconds, TtlSeconds + 1}

\* What the account holds at the venue, and what an earlier call cached.
VenueBalance == [available_usd |-> 70, locked_usd |-> 0, positions_usd |-> 0, total_usd |-> 70]
OldBalance == [available_usd |-> 50, locked_usd |-> 0, positions_usd |-> 0, total_usd |-> 50]

\* Lines 49-57, 72-80, 107-115, 119-127: a Balance with its updated_at.
Stamp(b, at) ==
    [available_usd |-> b.available_usd, locked_usd |-> b.locked_usd,
     positions_usd |-> b.positions_usd, total_usd |-> b.total_usd, updated_at |-> at]

\* Line 48: the cache document exists and is at most _TTL_SECONDS old.
WithinTtl(cached, now) == cached # None /\ now - cached[1].updated_at <= TtlSeconds

\* polymarket_client.py lines 28-354: what get_balance returns.  Every
\* exception inside it is caught at line 346 and answered with zeros.
GetBalanceReturns(venue) == IF venue = "ok" THEN VenueBalance ELSE ZeroBalance

\* Lines 103-127: the fallback of the handler.
Fallback(cached, now) == IF cached # None THEN cached[1] ELSE Stamp(ZeroBalance, now)

NoCall == [force |-> FALSE, now |-> 0, venue |-> "none", store |-> "none"]

CurrentInit ==
    /\ c_calls = 0
    /\ c_clock = 0
    /\ cache \in {None, Some(Stamp(OldBalance, 0))}
    /\ c_args = NoCall
    /\ c_client = FALSE
    /\ c_ret = None

CurrentIdle ==
    /\ c_calls = 0
    /\ c_clock = 0
    /\ cache = None
    /\ c_args = NoCall
    /\ c_client = FALSE
    /\ c_ret = None

\* Lines 44-57: get_current(force=False) with a cache document within the TTL.
ReturnCached ==
    /\ c_calls < MaxCalls
    /\ \E delta \in ClockSteps :
         LET now == c_clock + delta
         IN  /\ WithinTtl(cache, now)
             /\ c_clock' = now
             /\ c_args' = [NoCall EXCEPT !.now = now]
             /\ c_ret' = Some(cache[1])
    /\ c_client' = FALSE
    /\ c_calls' = c_calls + 1
    /\ UNCHANGED cache
    /\ UNCHANGED notCurrentVars

\* Lines 44-48, 59-134: the other calls.  PolymarketClient() raises or not,
\* get_balance answers the balance or its zeros, set_doc succeeds or raises;
\* an exception of any of them is caught at line 90.
FetchAndStore ==
    /\ c_calls < MaxCalls
    /\ \E force \in BOOLEAN : \E delta \in ClockSteps :
       \E venue \in {"ok", "fetch fails", "init raises"} :
       \E store \in {"ok", "raises"} :
         LET now == c_clock + delta
             raw == GetBalanceReturns(venue)
         IN  /\ force \/ ~WithinTtl(cache, now)
             /\ venue = "init raises" => store = "ok"
             /\ c_clock' = now
             /\ c_args' = [force |-> force, now |-> now, venue |-> venue,
                           store |-> IF venue = "init raises" THEN "none" ELSE store]
             /\ IF venue = "init raises" \/ store = "raises"
                THEN /\ c_ret' = Some(Fallback(cache, now))
                     /\ UNCHANGED cache
                ELSE /\ cache' = Some(Stamp(raw, now))
                     /\ c_ret' = Some(Stamp(raw, now))
    /\ c_client' = TRUE
    /\ c_calls' = c_calls + 1
    /\ UNCHANGED notCurrentVars

CurrentNext == ReturnCached \/ FetchAndStore

(***************************************************************************)
(*   The callback handlers of services/bot_a/app.py.  The webhook feeds    *)
(*   the dispatcher whatever update is posted to it, so the callback data  *)
(*   of an update is any string; it is modelled by its parts after         *)
(*   split(":"), the third part absent (NULL) when the data has only two.  *)
(***************************************************************************)

\* ---- bounds of the model
MaxUpdates == 4         \* updates the bot handles in a run

\* The documents run_analysis can have saved: one with a token id, one
\* without.
SuggestionDocs == [s1 |-> [tokenId |-> "tok", side |-> "BUY_YES", price |-> 50],
                   s2 |-> [tokenId |-> "", side |-> "BUY_YES", price |-> 50]]

\* Suggestion ids a callback can name; s3 is never in the store.
CallbackIds == {"s1", "s2", "s3"}

\* Third parts of the callback data.
SizeStrings == {"1", "1.0", "0", "0.0", "-5", "-5.0", "nan", "abc", "custom", NULL}

\* Python's float(s): a number, the NaN, or ValueError.
ParseFloat(s) ==
    IF s \in {"1", "1.0"} THEN [kind |-> "num", value |-> 1]
    ELSE IF s \in {"0", "0.0"} THEN [kind |-> "num", value |-> 0]
    ELSE IF s \in {"-5", "-5.0"} THEN [kind |-> "num", value |-> 0 - 5]
    ELSE IF s = "nan" THEN [kind |-> "nan", value |-> 0]
    ELSE [kind |-> "raise", value |-> 0]

\* Python's f"{size}" of a float.
FormatFloat(x) ==
    IF x.kind = "nan" THEN "nan"
    ELSE IF x.value = 1 THEN "1.0"
    ELSE IF x.value = 0 THEN "0.0"
    ELSE "-5.0"

\* Line 727: "if size <= 0"; every comparison with the NaN is false.
NotPositive(x) == x.kind = "num" /\ x.value <= 0

NoButton == [id |-> NULL, size |-> NULL]

BotInit ==
    /\ h_updates = 0
    /\ suggestion_docs = << >>
    /\ confirm_button = NoButton
    /\ place_trade_calls = << >>

BotIdle ==
    /\ h_updates = 0
    /\ suggestion_docs = << >>
    /\ confirm_button = NoButton
    /\ place_trade_calls = << >>

\* on_range_select, lines 266-390: run_analysis saves suggestions and each is
\* shown with the amount keyboard.
OnRangeSelect ==
    /\ h_updates < MaxUpdates
    /\ \E ids \in SUBSET (DOMAIN SuggestionDocs) :
         suggestion_docs' = [i \in (DOMAIN suggestion_docs) \cup ids |-> SuggestionDocs[i]]
    /\ h_updates' = h_updates + 1
    /\ UNCHANGED <<confirm_button, place_trade_calls>>
    /\ UNCHANGED notBotVars

\* on_amount_select, lines 643-695: the confirmation keyboard for a known
\* suggestion and an amount float() takes.
OnAmountSelect ==
    /\ h_updates < MaxUpdates
    /\ \E id \in CallbackIds : \E size_str \in SizeStrings :
         LET size == ParseFloat(size_str)
         IN  confirm_button' =
               IF size_str \in {NULL, "custom"} \/ size.kind = "raise"
                  \/ id \notin DOMAIN suggestion_docs
               THEN confirm_button
               ELSE [id |-> id, size |-> FormatFloat(size)]
    /\ h_updates' = h_updates + 1
    /\ UNCHANGED <<suggestion_docs, place_trade_calls>>
    /\ UNCHANGED notBotVars

\* on_cancel, lines 698-701: the message is deleted.
OnCancel ==
    /\ h_updates < MaxUpdates
    /\ confirm_button' = NoButton
    /\ h_updates' = h_updates + 1
    /\ UNCHANGED <<suggestion_docs, place_trade_calls>>
    /\ UNCHANGED notBotVars

\* on_confirm, lines 704-806: place_trade is called unless the data has no
\* third part, float() raises, the size is <= 0, the suggestion is not in the
\* store or its token id is empty.
OnConfirm ==
    /\ h_updates < MaxUpdates
    /\ \E id \in CallbackIds : \E size_str \in SizeStrings :
         LET size == ParseFloat(size_str)
         IN  place_trade_calls' =
               IF size_str = NULL \/ size.kind = "raise" \/ NotPositive(size)
                  \/ id \notin DOMAIN suggestion_docs
               THEN place_trade_calls
               ELSE IF suggestion_docs[id].tokenId = "" THEN place_trade_calls
               ELSE Append(place_trade_calls,
                           [handler |-> "on_confirm", suggestion_id |-> id,
                            token_id |-> suggestion_docs[id].tokenId, size |-> size])
    /\ h_updates' = h_updates + 1
    /\ UNCHANGED <<suggestion_docs, confirm_button>>
    /\ UNCHANGED notBotVars

BotNext == OnRangeSelect \/ OnAmountSelect \/ OnCancel \/ OnConfirm

(***************************************************************************)
(*   run_analysis of polytrade/analysis.py: the analyzer that applies the  *)
(*   edge threshold.  Prices are in cents.                                  *)
(***************************************************************************)

\* ---- bounds of the model
MaxVariantMarkets == 2  \* markets list_markets() returns

\* ---- program constants
DefaultEdgeBps == 50    \* edge_bps of the settings

\* A market as the loop reads it: whether it lists tokens, its liquidity and
\* the quotes of its first token.
VariantMarkets ==
    { [tokens |-> FALSE, liquidity |-> MinLiquidityUsd, best_bid |-> 0, best_ask |-> 0] }
    \cup [tokens : {TRUE}, liquidity : {MinLiquidityUsd - 1, MinLiquidityUsd},
          best_bid : {0, 40, 50}, best_ask : {0, 40, 50}]

\* EDGE_BPS of the environment.
Thresholds == {0 - DefaultEdgeBps, 0, 1, DefaultEdgeBps}

\* Lines 56-63: fair_value = mid_price = (bid + ask) / 2, here in half cents.
FairValue(bid, ask) == bid + ask

\* An edge compared the other way round.
BelowThreshold(edge, threshold) == edge.num <= threshold * edge.den

\* Line 69: edge_bps >= settings.edge_bps.
ExceedsThreshold(edge, threshold) == edge.num >= threshold * edge.den

VariantInit ==
    /\ v_pc = "loop"
    /\ \E n \in 0..MaxVariantMarkets : v_markets \in [1..n -> VariantMarkets]
    /\ v_threshold \in Thresholds
    /\ v_max \in 1..MaxVariantMarkets
    /\ v_idx = 0
    /\ v_suggestions = << >>

VariantIdle ==
    /\ v_pc = "idle"
    /\ v_markets = << >>
    /\ v_threshold = 0
    /\ v_max = 0
    /\ v_idx = 0
    /\ v_suggestions = << >>

\* Lines 27-90: one market of the loop.
VariantMarket ==
    /\ v_pc = "loop"
    /\ v_idx < Len(v_markets)
    /\ Len(v_suggestions) < v_max
    /\ LET m      == v_markets[v_idx + 1]
           edge   == ComputeEdgeBps(FairValue(m.best_bid, m.best_ask),
                                    2 * m.best_ask)
       IN  v_suggestions' =
             IF ~m.tokens \/ BelowFloor(m.liquidity) \/ m.best_ask <= 0
             THEN v_suggestions
             ELSE IF ExceedsThreshold(edge, v_threshold)
             THEN Append(v_suggestions,
                         [market |-> v_idx + 1, price |-> m.best_ask, edge_bps |-> edge])
             ELSE v_suggestions
    /\ v_idx' = v_idx + 1
    /\ UNCHANGED <<v_pc, v_markets, v_threshold, v_max>>
    /\ UNCHANGED notVariantVars

\* Lines 28-29, 92-93: the loop ends at the quota or at the end of the list.
VariantReturn ==
    /\ v_pc = "loop"
    /\ v_idx = Len(v_markets) \/ Len(v_suggestions) >= v_max
    /\ v_pc' = "done"
    /\ UNCHANGED <<v_markets, v_threshold, v_max, v_idx, v_suggestions>>
    /\ UNCHANGED notVariantVars

VariantNext == VariantMarket \/ VariantReturn

(***************************************************************************)
(*                           Specifications                                *)
(***************************************************************************)

InitAnalysis == AnalysisInit /\ FilterIdle /\ FetchIdle /\ LiveIdle /\ UrgentIdle /\ BuyIdle
    /\ EdgeIdle
    /\ BalanceIdle
    /\ MonitorIdle
    /\ TradingIdle
    /\ RerunIdle
    /\ CurrentIdle
    /\ BotIdle
    /\ VariantIdle
SpecAnalysis == InitAnalysis /\ [][AnalysisNext]_vars

InitFilter == FilterInit /\ AnalysisIdle /\ FetchIdle /\ LiveIdle /\ UrgentIdle /\ BuyIdle
    /\ EdgeIdle
    /\ BalanceIdle
    /\ MonitorIdle
    /\ TradingIdle
    /\ RerunIdle
    /\ CurrentIdle
    /\ BotIdle
    /\ VariantIdle
SpecFilter == InitFilter /\ [][FilterNext]_vars

InitFetch == FetchInit /\ AnalysisIdle /\ FilterIdle /\ LiveIdle /\ UrgentIdle /\ BuyIdle
    /\ EdgeIdle
    /\ BalanceIdle
    /\ MonitorIdle
    /\ TradingIdle
    /\ RerunIdle
    /\ CurrentIdle
    /\ BotIdle
    /\ VariantIdle
SpecFetch == InitFetch /\ [][FetchNext]_vars

InitLive == LiveInit /\ AnalysisIdle /\ FilterIdle /\ FetchIdle /\ UrgentIdle /\ BuyIdle
    /\ EdgeIdle
    /\ BalanceIdle
    /\ MonitorIdle
    /\ TradingIdle
    /\ RerunIdle
    /\ CurrentIdle
    /\ BotIdle
    /\ VariantIdle
SpecLive == InitLive /\ [][LiveNext]_vars

InitUrgent == UrgentInit /\ AnalysisIdle /\ FilterIdle /\ FetchIdle /\ LiveIdle /\ BuyIdle
    /\ EdgeIdle
    /\ BalanceIdle
    /\ MonitorIdle
    /\ TradingIdle
    /\ RerunIdle
    /\ CurrentIdle
    /\ BotIdle
    /\ VariantIdle
SpecUrgent == InitUrgent /\ [][UrgentNext]_vars

InitBuy ==
    BuyInit /\ AnalysisIdle /\ FilterIdle /\ FetchIdle /\ LiveIdle /\ UrgentIdle
    /\ EdgeIdle
    /\ BalanceIdle
    /\ MonitorIdle
    /\ TradingIdle
    /\ RerunIdle
    /\ CurrentIdle
    /\ BotIdle
    /\ VariantIdle
SpecBuy == InitBuy /\ [][BuyNext]_vars

InitBalance ==
    BalanceInit /\ AnalysisIdle /\ FilterIdle /\ FetchIdle /\ LiveIdle /\ UrgentIdle
    /\ BuyIdle /\ EdgeIdle
    /\ MonitorIdle
    /\ TradingIdle
    /\ RerunIdle
    /\ CurrentIdle
    /\ BotIdle
    /\ VariantIdle
SpecBalance == InitBalance /\ [][BalanceNext]_vars

InitMonitor ==
    MonitorInit /\ AnalysisIdle /\ FilterIdle /\ FetchIdle /\ LiveIdle /\ UrgentIdle
    /\ BuyIdle /\ EdgeIdle /\ BalanceIdle
    /\ TradingIdle
    /\ RerunIdle
    /\ CurrentIdle
    /\ BotIdle
    /\ VariantIdle
SpecMonitor == InitMonitor /\ [][MonitorNext]_vars

InitTrading ==
    TradingInit /\ AnalysisIdle /\ FilterIdle /\ FetchIdle /\ LiveIdle /\ UrgentIdle
    /\ EdgeIdle /\ BalanceIdle /\ MonitorIdle
    /\ RerunIdle
    /\ CurrentIdle
    /\ BotIdle
    /\ VariantIdle
SpecTrading == InitTrading /\ [][TradingNext]_vars

\* Passes of run_monitor one after the other.
SpecMonitorRuns == InitMonitor /\ [][MonitorRunsNext]_vars

\* Calls of get_current one after the other.
InitCurrent ==
    CurrentInit /\ AnalysisIdle /\ FilterIdle /\ FetchIdle /\ LiveIdle /\ UrgentIdle
    /\ BuyIdle /\ EdgeIdle /\ BalanceIdle /\ MonitorIdle /\ TradingIdle /\ RerunIdle
    /\ BotIdle
    /\ VariantIdle
SpecCurrent == InitCurrent /\ [][CurrentNext]_vars

\* Updates handled by the bot one after the other.
InitBot ==
    BotInit /\ AnalysisIdle /\ FilterIdle /\ FetchIdle /\ LiveIdle /\ UrgentIdle
    /\ BuyIdle /\ EdgeIdle /\ BalanceIdle /\ MonitorIdle /\ TradingIdle /\ RerunIdle
    /\ CurrentIdle
    /\ VariantIdle
SpecBot == InitBot /\ [][BotNext]_vars

\* A run of the analyzer that applies the edge threshold.
InitVariant ==
    VariantInit /\ AnalysisIdle /\ FilterIdle /\ FetchIdle /\ LiveIdle /\ UrgentIdle
    /\ BuyIdle /\ EdgeIdle /\ BalanceIdle /\ MonitorIdle /\ TradingIdle /\ RerunIdle
    /\ CurrentIdle /\ BotIdle
SpecVariant == InitVariant /\ [][VariantNext]_vars

\* The edge: a run of run_analysis or one call of compute_edge_bps.
InitEdge ==
    /\ FilterIdle /\ FetchIdle /\ LiveIdle /\ UrgentIdle /\ BuyIdle
    /\ \/ AnalysisInit /\ EdgeIdle
       \/ EdgeInit /\ AnalysisIdle
    /\ BalanceIdle
    /\ MonitorIdle
    /\ TradingIdle
    /\ RerunIdle
    /\ CurrentIdle
    /\ BotIdle
    /\ VariantIdle
AnalysisOrEdgeNext == AnalysisNext \/ EdgeNext
SpecEdge == InitEdge /\ [][AnalysisOrEdgeNext]_vars

\* The scorers and the buyer: a run of run_analysis, of the live scorer, or
\* of buy_market_outcomes.
InitScorer ==
    /\ FilterIdle /\ FetchIdle /\ UrgentIdle
    /\ \/ AnalysisInit /\ LiveIdle /\ BuyIdle
       \/ LiveInit /\ AnalysisIdle /\ BuyIdle
       \/ BuyInit /\ AnalysisIdle /\ LiveIdle
    /\ EdgeIdle
    /\ BalanceIdle
    /\ MonitorIdle
    /\ TradingIdle
    /\ RerunIdle
    /\ CurrentIdle
    /\ BotIdle
    /\ VariantIdle
ScorerNext == AnalysisNext \/ LiveNext \/ BuyNext
SpecScorer == InitScorer /\ [][ScorerNext]_vars

(***************************************************************************)
(*                    Properties of the urgent filter                      *)
(***************************************************************************)

UrgentTaken == u_pc = "loop" /\ u_idx > 0

LastUrgentIncluded == \E k \in 1..Len(urgent_markets) : urgent_markets[k].pos = u_idx

\* C11: in urgent mode a record whose start instant resolves is included if
\* and only if hours_until <= 6, the lookahead of the code; a start in the
\* past is included however long ago it was, and a start one hour ago is
\* included with hours_until = -1.
UrgentPartition ==
    UrgentTaken =>
      LET r     == ResolveFrom(FirstNonEmpty(u_market))
          until == r.utc - u_cfg.now
      IN  /\ r.found =>
                (LastUrgentIncluded <=> until <= UrgentLookaheadHours * MinutesPerHour)
          /\ (r.found /\ until < 0) => LastUrgentIncluded
          /\ LastUrgentIncluded =>
                /\ r.found
                /\ u_result = "urgent"
                /\ urgent_markets[Len(urgent_markets)] = [pos |-> u_idx, until |-> until]
          /\ \A k \in 1..Len(urgent_markets) :
                urgent_markets[k].until <= UrgentLookaheadHours * MinutesPerHour

\* A start one hour ago, in the "<date> <time>+00" form, has been included
\* with hours_until = -1.
StartedAnHourAgoIncluded ==
    /\ UrgentTaken
    /\ u_market.gameStartTime = TimeString(" ", u_cfg.now - MinutesPerHour, "+00")
    /\ LastUrgentIncluded
    /\ urgent_markets[Len(urgent_markets)].until = -MinutesPerHour

(***************************************************************************)
(*                      Properties of the two scorers                      *)
(***************************************************************************)

LiveTaken == l_pc # "idle" /\ l_market # NoLiveMarket

\* C1: a record whose liquidity is below the minimum liquidity is never in
\* the scorer's output, whatever its quotes are: run_analysis appends no
\* suggestion for it and persists nothing, no suggestion in its list has a
\* liquidity below settings.min_liquidity_usd, the live scorer does not
\* append it, and no market in the list the live scorer returns has a
\* liquidity below min_liquidity.
LowLiquidityExcluded ==
    /\ \A i \in 1..Len(suggestions) : suggestions[i].liquidity >= MinLiquidityUsd
    /\ ( /\ a_pc # "idle" /\ market # NoMarket
         /\ market.liquidityClob # None
         /\ market.liquidityClob[1] < MinLiquidityUsd )
       => /\ a_result.sugg = NoSuggestion
          /\ a_result.saved = 0
          /\ a_result.status \notin {"suggested", "suggested_then_error"}
    /\ \A i \in 1..Len(filtered_markets) :
          filtered_markets[i].liquidity >= l_cfg.min_liquidity
    /\ ( /\ LiveTaken
         /\ l_market.liquidityClob.kind \in {"absent", "number"}
         /\ l_market.liquidityClob.usd < l_cfg.min_liquidity )
       => /\ l_result = "low_liquidity"
          /\ l_idx > Len(filtered_markets)

\* The live scorer has skipped a market one dollar below the minimum whose
\* only outcome has an ask in the target range, after returning another.
LowLiquidityLiveMarketSkipped ==
    /\ LiveTaken
    /\ l_market.liquidityClob = LiquidityField("number", LiveMinLiquidity - 1)
    /\ l_market.clob.kind = "list"
    /\ Len(l_market.clob.tokens) = 1
    /\ HasTargetPrice(OutcomesInfo(l_market, FetchMarketPricing(l_market)), l_cfg)
    /\ l_result = "low_liquidity"
    /\ Len(filtered_markets) = 1
    /\ l_idx = 2

(***************************************************************************)
(*                     Properties of run_analysis                          *)
(***************************************************************************)

Taken == a_pc # "idle" /\ market # NoMarket /\ idx > a_cfg.pad

\* C3: a record that passes the instrument and liquidity checks is given the
\* first token, in the given order, whose best ask is in [min_price,
\* max_price]; when only the second token's ask is in range the suggestion
\* carries the second token id and buys that outcome, never the first.
FirstMatchPolicy ==
    Taken =>
      /\ a_result.sugg # NoSuggestion =>
            LET t == a_result.sugg.tokenId[2]
            IN  /\ a_result.sugg.tokenId[1] = idx
                /\ InBand(market, t, a_cfg)
                /\ \A j \in 1..(t - 1) : ~InBand(market, j, a_cfg)
                /\ a_result.sugg.price = AskOf(market, t)
                /\ a_result.sugg.side = (IF t = 1 THEN "BUY_YES" ELSE "BUY_NO")
                /\ suggestions[Len(suggestions)] = a_result.sugg
      /\ ( /\ market.question # NULL
           /\ HasInstruments(market) /\ Len(market.clob.books) = 2
           /\ market.liquidityClob # None
           /\ market.liquidityClob[1] >= MinLiquidityUsd
           /\ ~InBand(market, 1, a_cfg)
           /\ InBand(market, 2, a_cfg) /\ AskOf(market, 2) > 0 )
         => /\ a_result.status = "suggested"
            /\ a_result.sugg.tokenId = <<idx, 2>>
            /\ a_result.sugg.side = "BUY_NO"

SecondOutcomeChosen ==
    /\ Taken
    /\ Len(market.clob.books) = 2
    /\ ~InBand(market, 1, a_cfg)
    /\ InBand(market, 2, a_cfg)
    /\ a_result.status = "suggested"
    /\ a_result.sugg.tokenId = <<idx, 2>>
    /\ a_result.sugg.side = "BUY_NO"

\* C4: with max_suggestions = k, run_analysis returns a list of exactly k
\* suggestions when at least k records of the input are acceptable and one
\* suggestion per acceptable record otherwise, never more than k.
QuotaExact ==
    /\ a_pc # "raised"
    /\ Len(suggestions) <= a_cfg.max_suggestions
    /\ a_pc = "done" =>
          Len(suggestions) = Min(a_cfg.max_suggestions, acceptableSeen)

\* C5: an exception while one record is processed rejects that record only;
\* the run goes on with the next record and returns a list, wherever the
\* record stands in the input.
RecordErrorsContained ==
    /\ a_result.status # "raised"
    /\ a_result.status = "suggested_then_error" => a_result.sugg = NoSuggestion
    /\ (a_pc = "done" /\ Len(suggestions) < a_cfg.max_suggestions) => idx = NumMarkets

(***************************************************************************)
(*                  Properties of filter_live_markets                      *)
(***************************************************************************)

FilterTaken == f_pc # "idle" /\ f_idx > 0

\* The entry of the market taken last, if it was appended.
LastIncluded == \E k \in 1..Len(live_markets) : live_markets[k].pos = f_idx

\* hours_until of an instant, in minutes: negative once the event started.
MinutesUntil(utc) == utc - f_cfg.now

\* C2: a record is in the live filter's output if and only if its start
\* instant resolves and -lookback_hours <= hours_until < 0; a start in the
\* future, exactly now, or more than lookback_hours ago is excluded.
LivePartition ==
    FilterTaken =>
      LET r == ResolveStart(f_market)
          inWindow == /\ r.found
                      /\ -(f_cfg.lookback_hours * MinutesPerHour) <= MinutesUntil(r.utc)
                      /\ MinutesUntil(r.utc) < 0
      IN  /\ LastIncluded <=> inWindow
          /\ (f_result = "live") <=> inWindow
          /\ \A k \in 1..Len(live_markets) :
                /\ live_markets[k].since > 0
                /\ live_markets[k].since <= f_cfg.lookback_hours * MinutesPerHour
                /\ live_markets[k].since = f_cfg.now - live_markets[k].start

\* A start exactly lookback_hours ago is in, and the one before it was out.
StartAtLookbackEdge ==
    /\ FilterTaken
    /\ f_result = "live"
    /\ LastIncluded
    /\ MinutesUntil(ResolveStart(f_market).utc) = -(f_cfg.lookback_hours * MinutesPerHour)

\* C9: the start instant comes from gameStartTime when that is non-empty,
\* else from eventStartTime when non-empty, else from endDate; a record with
\* a game start and a different end date is classified by the game start.
StartFieldPreference ==
    FilterTaken =>
      LET g == f_market.gameStartTime
          e == f_market.eventStartTime
          d == f_market.endDate
          chosen == IF g \notin {NoValue, EmptyString} THEN g
                    ELSE IF e \notin {NoValue, EmptyString} THEN e
                    ELSE d
          r == ResolveFrom(chosen)
      IN  /\ LastIncluded <=>
                (r.found /\ LiveWindow(f_cfg.now - r.utc, f_cfg.lookback_hours))
          /\ LastIncluded =>
                \E k \in 1..Len(live_markets) :
                    live_markets[k].pos = f_idx /\ live_markets[k].start = r.utc

\* The game start is in the window, the end date is not, and the record is in.
GameStartBeatsEndDate ==
    /\ FilterTaken
    /\ f_market.gameStartTime.kind = "str"
    /\ f_market.endDate.kind = "str"
    /\ f_market.endDate.clock > f_cfg.now
    /\ f_market.gameStartTime.clock < f_cfg.now
    /\ f_result = "live"
    /\ LastIncluded

\* C10: a record whose selected timestamp field cannot be parsed, or that has
\* no timestamp field, is not in the output; nothing is raised and the other
\* records are still classified.
UnparseableExcluded ==
    /\ f_pc \in {"idle", "loop", "done"}
    /\ f_pc = "done" => f_idx = f_cfg.n
    /\ FilterTaken =>
         LET v == FirstNonEmpty(f_market)
             unusable == \/ v.kind \in {"none", "empty", "garbage", "number"}
                         \/ v.kind = "str" /\ v.suffix = ""
         IN  unusable => /\ ~LastIncluded
                         /\ f_result \in {"no_timestamp", "parse_error"}

\* Garbage in gameStartTime with a live endDate behind it: excluded.
GarbageGameStartExcluded ==
    /\ FilterTaken
    /\ f_market.gameStartTime = Garbage
    /\ f_market.endDate.kind = "str"
    /\ f_market.endDate.clock < f_cfg.now
    /\ f_result = "parse_error"
    /\ ~LastIncluded

(***************************************************************************)
(*                 Properties of fetch_all_sports_markets                  *)
(***************************************************************************)

FirstPageFetched == p_pc \notin {"idle", "tags", "first", "first_wait"}

PageResult(pg) == FetchMarketsPage(page_response[pg], sports_tag_ids)

EntriesOf(pg) == {i \in 1..Len(all_markets) : all_markets[i].page = pg}

RECURSIVE TotalLen(_)
TotalLen(pages) ==
    IF pages = {} THEN 0
    ELSE LET pg == CHOOSE x \in pages : TRUE
         IN  Len(PageResult(pg)) + TotalLen(pages \ {pg})

\* C6: when fetch_all_sports_markets returns after a non-empty first page,
\* every page 1..N-1 was requested and answered; a page that failed or came
\* back empty has no entry in the aggregate, every other page has exactly
\* one entry holding its records, and the returned list has the records of
\* page 0 and of every non-empty page, no more.
PageFailuresIsolated ==
    (p_pc = "done" /\ first_page # << >>) =>
        /\ \A pg \in PoolPages :
              /\ pg \in requested
              /\ page_response[pg] # Pending
              /\ PageResult(pg) = << >> => EntriesOf(pg) = {}
              /\ PageResult(pg) # << >> =>
                    /\ Cardinality(EntriesOf(pg)) = 1
                    /\ \A i \in EntriesOf(pg) : all_markets[i].markets = PageResult(pg)
        /\ Len(flattened_markets) = Len(first_page) + TotalLen(PoolPages)
        /\ \A i \in 1..Len(all_markets) :
              \A j \in 1..Len(all_markets[i].markets) :
                 \E k \in 1..Len(flattened_markets) :
                    flattened_markets[k] = all_markets[i].markets[j]

\* A finished run in which one page met an HTTP error, one failed to
\* parse, and another page brought records.
FailedPageBesideGoodPage ==
    /\ p_pc = "done"
    /\ \E pg \in PoolPages : page_response[pg].kind = "http_error"
    /\ \E pg \in PoolPages : page_response[pg].kind = "parse_error"
    /\ \E pg \in PoolPages : PageResult(pg) # << >>

\* C7: once page 0 has come back with no records the function has returned
\* the empty list, no worker thread exists, nothing is queued and no page
\* but page 0 was requested.
EmptyFirstPageReturnsAtOnce ==
    (FirstPageFetched /\ first_page = << >>) =>
        /\ p_pc = "done"
        /\ flattened_markets = << >>
        /\ all_markets = << >>
        /\ num_threads = 0
        /\ work_queue = << >>
        /\ in_flight = {}
        /\ requested = {0}

\* Page 0 came back with no records, for a pool width that is positive,
\* and the function has returned.
FirstPageWithoutSports ==
    /\ p_pc = "done"
    /\ first_page = << >>
    /\ requested = {0}
    /\ max_workers > 0

\* C8 (as stated): at every moment at most max_workers page fetches are in
\* flight, whatever max_workers is.
InFlightWithinWidth == Cardinality(in_flight) <= max_workers

\* C8 (amended): for a pool width of at least one, at every moment at most
\* max_workers page fetches are in flight.
InFlightWithinPositiveWidth ==
    max_workers >= 1 => Cardinality(in_flight) <= max_workers

\* The pool is full while a page still waits in the queue.
PoolSaturated ==
    /\ max_workers >= 2
    /\ Cardinality(in_flight) = max_workers
    /\ work_queue # << >>

\* C12 (as stated): the returned list is ascending by hours_until, the
\* event that started longest ago first.
AscendingByHoursUntil ==
    f_pc = "done" =>
      \A i \in 1..Len(live_markets) : \A j \in i..Len(live_markets) :
         MinutesUntil(live_markets[i].start) <= MinutesUntil(live_markets[j].start)

\* C12 (amended): the returned list is ascending by hours_since_start, that
\* is descending by hours_until: the event that started most recently
\* comes first; it holds each included record once.
MostRecentlyStartedFirst ==
    f_pc = "done" =>
      /\ \A i \in 1..Len(live_markets) : \A j \in i..Len(live_markets) :
            /\ live_markets[i].since <= live_markets[j].since
            /\ MinutesUntil(live_markets[i].start) >= MinutesUntil(live_markets[j].start)
      /\ \A i \in 1..Len(live_markets) : \A j \in 1..Len(live_markets) :
            live_markets[i].pos = live_markets[j].pos => i = j

\* The sort has moved a later record of the input, started more recently,
\* in front of an earlier one.
LaterRecordMovedFirst ==
    /\ f_pc = "done"
    /\ Len(live_markets) >= 2
    /\ live_markets[1].pos > live_markets[2].pos
    /\ live_markets[1].since < live_markets[2].since

\* C13: a record whose clobTokenIds is absent, an empty list or a string
\* that is not JSON is never scored: no get_quotes call is made for it,
\* run_analysis appends no suggestion and persists nothing, the live scorer
\* does not append it, and the run goes on with the next record (a run that
\* stops at such a record stops for its null question or null liquidity,
\* before the parse was reached).
NoInstrumentsNeverScored ==
    /\ (Taken /\ ~HasInstruments(market)) =>
          /\ a_result.quotes = 0
          /\ a_result.sugg = NoSuggestion
          /\ a_result.saved = 0
          /\ \A k \in 1..Len(suggestions) : suggestions[k].marketId # idx
          /\ a_result.status = "raised" => market.question = NULL
          /\ market.question # NULL => (a_result.status = "no_tokens" /\ a_pc # "raised")
    /\ (LiveTaken /\ l_market.clob.kind \in {"absent", "badjson", "list"}
                  /\ l_market.clob.tokens = << >>) =>
          /\ l_quotes = 0
          /\ l_result # "passed"
          /\ l_idx > Len(filtered_markets)
          /\ l_result = "raised" => l_market.liquidityClob.kind = "null"
          /\ (l_market.liquidityClob.kind = "number"
                /\ l_market.liquidityClob.usd >= l_cfg.min_liquidity)
              => (l_result = "no_tokens" /\ l_pc # "raised")

\* The live scorer has skipped a market with enough liquidity whose
\* clobTokenIds is a string that is not JSON, after passing another market.
UnparsedInstrumentsSkipped ==
    /\ LiveTaken
    /\ l_market.clob.kind = "badjson"
    /\ l_market.liquidityClob = LiquidityField("number", LiveMinLiquidity)
    /\ l_result = "no_tokens"
    /\ l_quotes = 0
    /\ l_pc = "loop"
    /\ l_idx = 2
    /\ Len(filtered_markets) = 1

\* C14: when the quote fetch of one instrument of a record fails, the
\* remaining instruments are still evaluated in order: a record that passes
\* the other checks, whose first quote fetch failed and whose second
\* instrument has an ask in range, is accepted for the second instrument,
\* by run_analysis and by the live scorer.
FailedQuoteDoesNotBlock ==
    /\ ( /\ Taken
         /\ market.question # NULL
         /\ HasInstruments(market) /\ Len(market.clob.books) = 2
         /\ market.liquidityClob # None
         /\ market.liquidityClob[1] >= MinLiquidityUsd
         /\ market.clob.books[1] = ErrorBook
         /\ InBand(market, 2, a_cfg) /\ AskOf(market, 2) > 0 )
       => /\ a_result.status = "suggested"
          /\ a_result.sugg.tokenId = <<idx, 2>>
    /\ ( /\ LiveTaken
         /\ l_market.clob.kind = "list" /\ Len(l_market.clob.tokens) = 2
         /\ l_market.liquidityClob.kind = "number"
         /\ l_market.liquidityClob.usd >= l_cfg.min_liquidity
         /\ l_market.clob.tokens[1].price = None
         /\ BestAsk(l_market.clob.tokens[2]) > 0
         /\ l_cfg.min_ask_price <= BestAsk(l_market.clob.tokens[2])
         /\ BestAsk(l_market.clob.tokens[2]) <= l_cfg.max_ask_price )
       => /\ l_result = "passed"
          /\ l_quotes = 2

\* C15: a quote with best_ask = 0 is never a price, whatever the price
\* range: no suggestion of run_analysis has price 0, every market the live
\* scorer returns has a positive ask in the range and a market whose asks
\* are all 0 is not returned, and buy_market_outcomes selects no outcome
\* and places no order at price 0.
ZeroAskNeverAPrice ==
    /\ \A k \in 1..Len(suggestions) : suggestions[k].price > 0
    /\ a_result.sugg # NoSuggestion => a_result.sugg.price > 0
    /\ \A k \in 1..Len(filtered_markets) :
          \E j \in 1..Len(filtered_markets[k].asks) :
             /\ filtered_markets[k].asks[j] > 0
             /\ l_cfg.min_ask_price <= filtered_markets[k].asks[j]
             /\ filtered_markets[k].asks[j] <= l_cfg.max_ask_price
    /\ ( /\ LiveTaken
         /\ \A j \in 1..Len(l_market.clob.tokens) : BestAsk(l_market.clob.tokens[j]) = 0 )
       => l_result # "passed"
    /\ \A k \in 1..Len(outcomes_to_buy) : outcomes_to_buy[k].ask_price > 0
    /\ \A k \in 1..Len(orders) : orders[k].price > 0

\* With min_ask_price = 0, buy_market_outcomes was given an outcome with a
\* token and a zero ask beside an outcome in range, and has placed its one
\* order for the latter.
ZeroAskOutcomeNotBought ==
    /\ b_pc = "done"
    /\ b_cfg.min_ask_price = 0
    /\ \E k \in 1..Len(b_market.pricing) :
          b_market.pricing[k].best_ask = 0 /\ b_market.pricing[k].token_id # ""
    /\ Len(orders) = 1
    /\ orders[1].price > 0

\* C16: once max_suggestions suggestions are accepted, run_analysis
\* evaluates no further record: from then on no step takes a market,
\* fetches a quote, calls add_doc or adds a suggestion.
NothingAfterQuota ==
    [][ Len(suggestions) >= a_cfg.max_suggestions
          => /\ idx' = idx
             /\ quoteCalls' = quoteCalls
             /\ addDocCalls' = addDocCalls
             /\ suggestions' = suggestions ]_vars

\* run_analysis has accepted its max_suggestions-th suggestion, at least
\* one, and has left the loop with markets still unread.
StoppedWithMarketsLeft ==
    /\ a_pc = "done"
    /\ a_cfg.max_suggestions >= 1
    /\ Len(suggestions) = a_cfg.max_suggestions
    /\ addDocCalls >= 1
    /\ idx < NumMarkets

\* C17: with min_price > max_price the scorer raises a configuration error
\* before any market is fetched or scored: run_analysis never gets past
\* its start, and the live scorer neither scores a market nor returns.
InvertedRangeFailsFast ==
    /\ a_cfg.min_price > a_cfg.max_price
          => (a_pc = "start" /\ first_market = NoMarket /\ idx = 0)
    /\ l_cfg.min_ask_price > l_cfg.max_ask_price
          => (l_pc # "done" /\ l_idx = 0)

\* Runs that go on: run_analysis is sequential code, and the pool's threads
\* are scheduled and every request returns or times out, so a step that
\* stays possible is taken.
FairAnalysis == SpecAnalysis /\ WF_vars(AnalysisNext)
FairFetch == SpecFetch /\ WF_vars(FetchNext)

\* Every fair run of run_analysis ends, by a return or by an exception, and
\* every fair run of fetch_all_sports_markets with a pool of at least one
\* thread returns.
AnalysisTerminates == <>(a_pc \in {"done", "raised"})
FetchTerminates == (max_workers >= 1) => <>(p_pc = "done")

\* C18: a run ends with a result list: run_analysis makes at most one pass
\* over its input and never leaves by an exception instead of returning
\* its list.
AnalysisEndsWithList ==
    /\ idx <= NumMarkets
    /\ a_pc # "raised"

\* C19: the pages fetched concurrently are accumulated without a race: no
\* step of a worker thread writes all_markets; every change to it is made
\* by the function's own thread and is the append of one whole page, page 0
\* when it is created and afterwards a page whose fetch has finished and
\* that was not collected before.
AppendsByCollectorOnly ==
    [][ all_markets' # all_markets =>
          /\ work_queue' = work_queue
          /\ page_response' = page_response
          /\ \/ /\ p_pc = "first_wait"
                /\ all_markets = << >>
                /\ all_markets' = <<[page |-> 0, markets |-> first_page']>>
             \/ /\ p_pc = "collect"
                /\ in_flight' = in_flight
                /\ \E pg \in PoolPages \ (collected \cup in_flight) :
                      /\ page_response[pg] # Pending
                      /\ collected' = collected \cup {pg}
                      /\ all_markets' =
                            Append(all_markets, [page |-> pg, markets |-> PageResult(pg)]) ]_vars

\* A page of the pool was appended to all_markets while the fetch of
\* another page was still in flight.
CollectedWhileOthersInFlight ==
    /\ p_pc = "collect"
    /\ \E i \in 1..Len(all_markets) : all_markets[i].page \in PoolPages
    /\ in_flight \cap PoolPages # {}

\* C20: the aggregated result is deduplicated: no market (by id) occurs
\* twice in the list fetch_all_sports_markets returns, also when two pages
\* bring the same market.
NoDuplicateMarkets ==
    \A i, j \in 1..Len(flattened_markets) :
        flattened_markets[i].id = flattened_markets[j].id => i = j

\* C21: fetch_markets_page keeps a record of the page if and only if the
\* record has a tag of the known sports tags or its question contains a
\* keyword.
SportsFilterExact ==
    \A pg \in PoolPages :
        page_response[pg].kind = "ok" =>
            \A i \in 1..Len(page_response[pg].body) :
                LET m == page_response[pg].body[i]
                IN  (\E k \in 1..Len(PageResult(pg)) : PageResult(pg)[k] = m)
                    <=> \/ m.tag \in sports_tag_ids
                        \/ m.question # NULL /\ HasSportsKeyword(m.question)

OtherFormat(v) ==
    IF v.sep = " " THEN TimeString("T", v.clock, "Z") ELSE TimeString(" ", v.clock, "+00")

\* C23: the space-separated "<date> <time>+00" format and the
\* "<date>T<time>Z" format of one instant resolve to equal instants, so
\* the filter classifies the record it took as it would the same record
\* written in the other format.
BothFormatsAgree ==
    LET v == StartTimeStr(f_market)
    IN  ( /\ FilterTaken
          /\ v.kind = "str"
          /\ (v.sep = " " /\ v.suffix = "+00") \/ (v.sep = "T" /\ v.suffix = "Z") )
        => /\ ResolveFrom(v).found
           /\ ResolveFrom(OtherFormat(v)) = ResolveFrom(v)
           /\ ResolveFrom(v).utc = v.clock
           /\ f_result \in {"live", "not_live"}
           /\ f_result = "live" <=>
                 LiveWindow(f_cfg.now - ResolveFrom(OtherFormat(v)).utc, f_cfg.lookback_hours)

\* The filter has kept a record whose start is written "<date> <time>+00".
SpaceFormatKept ==
    /\ FilterTaken
    /\ f_result = "live"
    /\ StartTimeStr(f_market).kind = "str"
    /\ StartTimeStr(f_market).sep = " "
    /\ StartTimeStr(f_market).suffix = "+00"

\* C24: for a quote with 0 <= best_bid <= best_ask and best_ask > 0 the
\* edge of the suggestion, computed from mid = (best_bid + best_ask) / 2,
\* is <= 0; compute_edge_bps returns 0 whenever ask <= 0, and an edge that
\* is not positive whenever 0 < fair <= ask.
EdgeNeverPositive ==
    /\ \A k \in 1..Len(suggestions) :
          (0 <= suggestions[k].bid /\ suggestions[k].bid <= suggestions[k].price
              /\ suggestions[k].price > 0)
          => /\ suggestions[k].edge_bps.num <= 0
             /\ suggestions[k].edge_bps.den > 0
             /\ suggestions[k].edge_bps.num * 2 * suggestions[k].price =
                   (suggestions[k].bid - suggestions[k].price) * BpsPerUnit
                      * suggestions[k].edge_bps.den
    /\ e_pc = "done" =>
          /\ e_args.ask <= 0 => e_ret.num = 0
          /\ (e_args.ask > 0 /\ e_args.fair <= e_args.ask) => e_ret.num <= 0
          /\ (e_args.ask > 0 /\ e_args.fair = e_args.ask) => e_ret.num = 0
          /\ e_ret.den > 0

\* run_analysis has made a suggestion from a quote with bid below ask: its
\* edge is negative.
SuggestionWithNegativeEdge ==
    \E k \in 1..Len(suggestions) :
        /\ suggestions[k].bid < suggestions[k].price
        /\ suggestions[k].edge_bps.num < 0

\* C25: each suggestion is persisted when it is accepted, before the next
\* record is taken: after every prefix of the run add_doc was called once
\* for each suggestion accepted so far, the iteration that accepted a
\* record is the one that called add_doc for it, and no call is left for
\* the end of the run.
PersistedOnAcceptance ==
    /\ addDocCalls = Len(suggestions)
    /\ a_result.saved = (IF a_result.sugg = NoSuggestion THEN 0 ELSE 1)
    /\ a_result.sugg # NoSuggestion => suggestions[Len(suggestions)] = a_result.sugg

\* run_analysis has returned two suggestions after two add_doc calls, the
\* second made by the iteration that accepted the last record.
TwoAcceptedTwoSaved ==
    /\ a_pc = "done"
    /\ Len(suggestions) = 2
    /\ addDocCalls = 2
    /\ a_result.saved = 1

RECURSIVE ValueAboveThreshold(_)
ValueAboveThreshold(held) ==
    IF held = << >> THEN 0
    ELSE LET p == held[Len(held)]
             rest == ValueAboveThreshold(SubSeq(held, 1, Len(held) - 1))
         IN  IF ValueOf(p) > ValueThreshold THEN rest + ValueOf(p) ELSE rest

\* C27: when the three sources answer and every size and currentValue is a
\* number, get_balance reports available_usd = raw balance / 1,000,000,
\* locked_usd = the sum of size * price over the open orders, positions_usd =
\* the sum of currentValue over the positions of value above 0.001, and
\* total_usd = their sum.  The code does not: a position with a null title is
\* left out of positions_usd.
BalanceAsDescribed ==
    ( /\ g_pc = "done"
      /\ balance_response.kind \in {"dict", "number", "other"}
      /\ orders_response.kind \in {"list", "data"}
      /\ \A i \in 1..Len(orders_response.orders) : orders_response.orders[i].size # None
      /\ positions_response.kind = "list"
      /\ ~ValueRaises(positions_response.positions) )
    => LET available == RawBalance(balance_response) \div (MicroPerUsd \div MilliPerUsd)
           locked == LockedUsd(orders_response.orders)
           held == ValueAboveThreshold(positions_response.positions)
       IN  balance = [available_usd |-> available, locked_usd |-> locked,
                      positions_usd |-> held, total_usd |-> available + locked + held]

\* The price a trade is valued at: the best bid of its book for a BUY side,
\* the best ask otherwise; 0 when the book has no such price.
PriceNow(i) ==
    LET side_prices == IF trades[i].side \in {"BUY", "BUY_YES", "BUY_NO"}
                       THEN order_books[i].bids ELSE order_books[i].asks
    IN  IF order_books[i].error \/ side_prices = << >> THEN 0 ELSE side_prices[1]
OrderedFor(i) == \E k \in 1..Len(closing_orders) : closing_orders[k].trade = i

\* C28: after a pass, for each trade that was open, with positive entry
\* price and positive current price, a closing order was placed if and only
\* if pnl_pct <= -slPct or pnl_pct >= tpPct, a trade closed by the pass
\* carries the matching reason, and a trade strictly inside both limits is
\* still OPEN.  The code does not: the query reads at most 50 open trades,
\* and an open trade after them gets no order whatever its price.
EachOpenTradeDecided ==
    m_pc = "done" =>
      \A i \in 1..Len(trades) :
         LET t  == trades[i]
             sl == (PriceNow(i) - t.entryPx) * PercentPerUnit <= (0 - t.slPct) * t.entryPx
             tp == (PriceNow(i) - t.entryPx) * PercentPerUnit >= t.tpPct * t.entryPx
         IN  (t.status # "FAILED" /\ t.entryPx > 0 /\ PriceNow(i) > 0)
             => /\ OrderedFor(i) <=> (sl \/ tp)
                /\ t.status = "CLOSED" =>
                      t.closeReason = IF sl THEN "STOP_LOSS" ELSE "TAKE_PROFIT"
                /\ ~(sl \/ tp) => t.status = "OPEN"

\* C29: a trade is CLOSED only if a closing order for it was placed
\* successfully in this pass, and then its closeReason is STOP_LOSS or
\* TAKE_PROFIT; a trade whose closing order failed is still OPEN.
ClosedOnlyAfterOrder ==
    /\ \A i \in 1..Len(trades) :
          trades[i].status = "CLOSED"
          => /\ \E k \in 1..Len(closing_orders) :
                   closing_orders[k].trade = i /\ closing_orders[k].result = "ok"
             /\ trades[i].closeReason \in {"STOP_LOSS", "TAKE_PROFIT"}
    /\ \A k \in 1..Len(closing_orders) :
          closing_orders[k].result # "ok" => trades[closing_orders[k].trade].status = "OPEN"
    /\ m_pc \in {"start", "idle"} => \A i \in 1..Len(trades) : trades[i].status # "CLOSED"

\* A pass that closed a trade at its take-profit limit.
TradeClosedByPass ==
    /\ m_pc = "done"
    /\ \E i \in 1..Len(trades) :
          trades[i].status = "CLOSED" /\ trades[i].closeReason = "TAKE_PROFIT"

\* C30: a step that places an order finds the tracked balance at least the
\* order's cost and, when the order is accepted, lowers it by exactly that
\* cost (and leaves it otherwise); the tracked balance is never negative.
BuysWithinBalance ==
    [][ /\ available_usd' >= 0
        /\ Len(orders') > Len(orders) =>
              LET placed == orders'[Len(orders')]
                  cost   == placed.price * placed.size
              IN  /\ available_usd >= cost
                  /\ available_usd' = IF placed.result = "ok" THEN available_usd - cost
                                      ELSE available_usd ]_vars

\* Two accepted orders took the balance from 200 to 10, and a third outcome
\* was refused for lack of balance.
BoughtUntilShort ==
    /\ available_usd = 10
    /\ Len(trading_results) >= 3
    /\ trading_results[1].status = "SUCCESS"
    /\ trading_results[2].status = "SUCCESS"
    /\ trading_results[3].status = "FAILED"
    /\ orders = << >>

\* C31: every order buy_market_outcomes places is for an outcome of the
\* market's pricing data whose ask is above 0 and within [min_ask_price,
\* max_ask_price] and whose token id is not empty; it is for 1 share of that
\* token at that ask; and no outcome is ordered twice.
OrdersOnlyForQualifying ==
    /\ \A k \in 1..Len(orders) :
          \E j \in 1..Len(b_market.pricing) :
             LET entry == b_market.pricing[j]
             IN  /\ entry.key = orders[k].outcome
                 /\ entry.token_id = orders[k].token_id
                 /\ entry.token_id # ""
                 /\ entry.best_ask = orders[k].price
                 /\ entry.best_ask > 0
                 /\ b_cfg.min_ask_price <= entry.best_ask
                 /\ entry.best_ask <= b_cfg.max_ask_price
                 /\ orders[k].size = 1
    /\ \A k, l \in 1..Len(orders) : orders[k].outcome = orders[l].outcome => k = l

\* A call that ordered one outcome of a market and left out the other, whose
\* ask is 0 in a band that starts at 0.
OrderedOneOfTwo ==
    /\ b_pc = "done"
    /\ Len(orders) = 1
    /\ Len(b_market.pricing) = 2
    /\ b_cfg.min_ask_price = 0
    /\ \E j \in 1..2 : b_market.pricing[j].best_ask = 0 /\ b_market.pricing[j].token_id # ""

\* A position is held under the market's title, without case and
\* surrounding blanks.
TitleHeld ==
    /\ b_market.title # NULL
    /\ \E k \in 1..Len(positions) :
          Normalize(positions[k]) = Normalize(b_market.title)

\* C32 as stated: when a position is held under the market's title, no step
\* of buy_market_outcomes places an order or changes trading_results.  The
\* code does not skip the market when both titles are empty.
HeldTitleNeverBought ==
    [][ TitleHeld => (orders' = << >> /\ trading_results' = trading_results) ]_vars

\* C32: when a position is held under the market's title and the title is
\* not empty, no step of buy_market_outcomes places an order or changes
\* trading_results, and the call returns at once.
HeldNamedTitleNeverBought ==
    [][ (TitleHeld /\ b_market.title # "")
        => /\ orders' = << >>
           /\ trading_results' = trading_results
           /\ b_pc = "start" => b_pc' = "done" ]_vars

\* A call that returned the earlier results alone for a market with an
\* outcome in the band, money for it, and a position under its title.
SkippedForHeldPosition ==
    /\ b_pc = "done"
    /\ TitleHeld /\ b_market.title # ""
    /\ trading_results = <<PriorResult>>
    /\ orders = << >>
    /\ available_usd >= 95
    /\ b_cfg.min_ask_price <= 95 /\ 95 <= b_cfg.max_ask_price
    /\ \E j \in 1..Len(b_market.pricing) :
          b_market.pricing[j].best_ask = 95 /\ b_market.pricing[j].token_id # ""

\* C33: over the passes of run_monitor, at most one closing order is placed
\* for any trade.  The code does not: a trade whose document could not be
\* updated after its order was accepted is still OPEN for the next pass,
\* which orders again.
OneClosingOrderPerTrade ==
    \A i \in 1..Len(trades) :
       Cardinality({ k \in 1..Len(closing_orders) :
                        closing_orders[k].trade = i /\ closing_orders[k].result = "ok" }) <= 1
\* The trades of the list whose size float() does not take.
UnreadableTrades == {k \in 1..Len(trades_list) : trades[trades_list[k]].size = None}

\* C34: an exception while one trade is processed is counted in errors and the
\* remaining trades are still processed: run_monitor never raises, and when it
\* has returned every trade of the list was processed and every trade whose
\* fields could not be read is among the errors.
EveryFailureCounted ==
    /\ m_pc # "raised"
    /\ m_pc = "done" =>
          /\ m_result.processed = Len(trades_list)
          /\ m_result.errors >= Cardinality(UnreadableTrades)
\* C35: a call of get_current that cannot fetch the balance from the venue
\* (the client cannot be constructed, or the requests of get_balance fail)
\* returns the cached balance when there is one and zeros when there is none,
\* and leaves the cache document as it was.
FailedFetchKeepsCache ==
    [][ ( /\ c_calls' = c_calls + 1
          /\ c_client'
          /\ c_args'.venue \in {"fetch fails", "init raises"} )
        => /\ cache' = cache
           /\ c_ret' = IF cache # None THEN Some(cache[1])
                       ELSE Some([available_usd |-> 0, locked_usd |-> 0, positions_usd |-> 0,
                                  total_usd |-> 0, updated_at |-> c_args'.now]) ]_vars

\* C36: a call of get_current returns the cached balance without constructing
\* a client if and only if force is false and a cache document exists whose
\* age is at most 30 seconds; any other call contacts the venue and, when the
\* venue answers, stores the balance it answered with updated_at = now and
\* returns it.
CachedOnlyWithinTtl ==
    [][ c_calls' = c_calls + 1
        => LET now    == c_args'.now
               served == /\ ~c_args'.force
                         /\ cache # None
                         /\ now - cache[1].updated_at <= 30
           IN  /\ served => ~c_client' /\ c_ret' = Some(cache[1]) /\ cache' = cache
               /\ ~served => c_client'
               /\ (~served /\ c_args'.venue = "ok")
                     => /\ cache' # None
                        /\ cache'[1].updated_at = now
                        /\ cache'[1].total_usd = VenueBalance.total_usd
                        /\ c_ret' = cache' ]_vars
\* How often market m occurs in the list s, and in the pages pgs as
\* fetch_markets_page returned them.
Occurrences(s, m) == Cardinality({i \in 1..Len(s) : s[i] = m})
RECURSIVE OccurrencesInPages(_, _)
OccurrencesInPages(pgs, m) ==
    IF pgs = {} THEN 0
    ELSE LET pg == CHOOSE p \in pgs : TRUE
         IN  Occurrences(FetchMarketsPage(page_response[pg], sports_tag_ids), m)
             + OccurrencesInPages(pgs \ {pg}, m)

\* C37: what fetch_all_sports_markets returns holds, as a multiset, the
\* records of page 0 and of every pool page that answered with sports
\* markets, each page once, whatever the order in which the fetches ended.
ReturnsEveryPageOnce ==
    p_pc = "done" =>
      \A m \in {TaggedGame, KeywordGame, Politics, Untitled} :
         Occurrences(flattened_markets, m)
           = IF first_page = << >> THEN 0
             ELSE Occurrences(first_page, m) + OccurrencesInPages(PoolPages, m)
PagesReturnedOutOfOrder ==
    /\ p_pc = "done"
    /\ \E i, j \in 1..Len(all_markets) :
          i < j /\ all_markets[i].page > all_markets[j].page
    /\ \E pg \in PoolPages : page_response[pg].kind # "ok"
    /\ Len(flattened_markets) > Len(first_page)
\* C38: place_trade is called only by on_confirm, for a callback whose size
\* is a positive number and whose suggestion is in the store with a token id
\* that is not empty.
TradesOnlyOnValidConfirm ==
    \A k \in 1..Len(place_trade_calls) :
       LET call == place_trade_calls[k]
       IN  /\ call.handler = "on_confirm"
           /\ call.size.kind = "num" /\ call.size.value > 0
           /\ call.suggestion_id \in DOMAIN suggestion_docs
           /\ suggestion_docs[call.suggestion_id].tokenId # ""
\* C39: with a positive edge threshold the analyzer of polytrade/analysis.py
\* creates no suggestion for a market whose best bid is not above its best
\* ask.
NoSuggestionUnlessCrossed ==
    v_threshold > 0 =>
      \A k \in 1..Len(v_suggestions) :
         v_markets[v_suggestions[k].market].best_bid
           > v_markets[v_suggestions[k].market].best_ask
UncrossedMarketPassedOver ==
    /\ v_pc = "done"
    /\ v_threshold = DefaultEdgeBps
    /\ \E i \in 1..v_idx :
          /\ v_markets[i].tokens
          /\ v_markets[i].liquidity >= MinLiquidityUsd
          /\ v_markets[i].best_bid > 0
          /\ v_markets[i].best_bid <= v_markets[i].best_ask
          /\ \A k \in 1..Len(v_suggestions) : v_suggestions[k].market # i
    /\ Len(v_suggestions) = 1
\* C40: a token whose quote has best_ask = 0 does not keep a later token of
\* the same record from being accepted: when a later token's ask is positive
\* and in [min_price, max_price], with min_price >= 0, and no token before it
\* has such an ask, the record yields the suggestion for that token.
EmptyQuoteDoesNotBlock ==
    Taken =>
      \A j \in 2..Len(market.clob.books) :
         ( /\ market.question # NULL
           /\ HasInstruments(market)
           /\ market.liquidityClob # None
           /\ market.liquidityClob[1] >= MinLiquidityUsd
           /\ a_cfg.min_price >= 0
           /\ AskOf(market, j) > 0 /\ InBand(market, j, a_cfg)
           /\ \E i \in 1..(j - 1) : AskOf(market, i) = 0
           /\ \A i \in 1..(j - 1) : AskOf(market, i) = 0 \/ ~InBand(market, i, a_cfg) )
         => /\ a_result.status = "suggested"
            /\ a_result.sugg.tokenId = <<idx, j>>

=============================================================================
